---- MODULE Spec2Model ----
(***************************************************************************)
(* Row grouper of arrow/compute/row/grouper.cc: the fallback grouper       *)
(* (GrouperImpl) and the fast-path grouper (GrouperFastImpl) are run side  *)
(* by side on the same calls.  Key schema: one nullable one-byte integer   *)
(* column followed by one column of the null type.                         *)
(***************************************************************************)
EXTENDS Integers, Sequences, FiniteSets, TLC

\* ---------------------------------------------------------------- bounds
MaxVal == 1            \* cell values of the integer column are 0..MaxVal
MaxLen == 2            \* rows of a short batch
MaxStream == 4         \* rows fed to a segmenter between two resets
MaxResets == 2         \* resets of a segmenter
MaxIds == 6            \* ids handed to MakeGroupings
MaxKeys == 3           \* key types handed to RowSegmenter::Make
MaxGroups == 3         \* num_groups of MakeGroupings; the ids are 0..MaxGroups

\* ------------------------------------------------------------- constants
minibatch_size_min_ == 128
minibatch_size_max_ == 1024
Null == -1             \* a null cell
Uninit == -2           \* content of a buffer element that was never written

KeyTypes == <<"int8", "na">>
NumCols == Len(KeyTypes)

Min(a, b) == IF a < b THEN a ELSE b

\* ---------------------------------------------------------------- batches
Cells(type) == IF type = "na" THEN {Null} ELSE {Null} \cup (0..MaxVal)

\* a batch of n rows whose first column is the array c
MakeBatch(c) ==
  [length |-> Len(c), values |-> <<c, [i \in 1..Len(c) |-> Null]>>]

ShortBatches ==
  {MakeBatch(c) : c \in UNION {[1..n -> Cells("int8")] : n \in 0..MaxLen}}

\* a batch that the first call of a grouper cuts into two mini-batches:
\* minibatch_size_min_ copies of the first row in front of a short batch
LongBatch(b) ==
  MakeBatch([i \in 1..minibatch_size_min_ |-> b.values[1][1]] \o b.values[1])

LongBatches == {LongBatch(b) : b \in {s \in ShortBatches : s.length > 0}}

\* a batch of one row that has the first key column only
NarrowBatches == {[length |-> 1, values |-> <<<<v>>>>] : v \in Cells("int8")}

\* batch[j].is_scalar(): the batch names the columns that are scalars; such a
\* column holds its one value, whatever the length of the batch
IsScalar(batch, j) == "scalars" \in DOMAIN batch /\ j \in batch.scalars

\* the key tuple of row i (1-based) of a batch; a key column that the batch
\* has not is taken as null, a scalar is the value of every row
Row(batch, i) ==
  [c \in 1..NumCols |->
     IF c > Len(batch.values) THEN Null
     ELSE IF IsScalar(batch, c) THEN batch.values[c][1]
     ELSE batch.values[c][i]]

KeyTuples == {<<c, Null>> : c \in Cells("int8")}

\* ExecBatch::Slice: the arrays are sliced, the scalars are left as they are
Slice(batch, offset, length) ==
  LET Sliced(n) ==
        [batch EXCEPT !.length = n,
                      !.values = [c \in 1..Len(batch.values) |->
                                    IF IsScalar(batch, c) THEN batch.values[c]
                                    ELSE SubSeq(batch.values[c], offset + 1, offset + n)]]
  IN Sliced(Min(length, batch.length - offset))

\* a variant that takes all rows from the offset on, whatever the length
CheckAndCapIgnoringLength(batch_length, consume_offset, consume_length) ==
  IF consume_offset < 0
    THEN [status |-> "Invalid", length |-> consume_length]
    ELSE [status |-> "OK", length |-> batch_length - consume_offset]

\* CheckAndCapLengthForConsume: the status and the capped length
CheckAndCapLengthForConsume(batch_length, consume_offset, consume_length) ==
  IF consume_offset < 0
    THEN [status |-> "Invalid", length |-> consume_length]
    ELSE [status |-> "OK",
          length |-> IF consume_length < 0
                       THEN batch_length - consume_offset
                       ELSE consume_length]

\* -------------------------------------------------- fallback key encoders
\* KeyEncoder::AddLength of the column's encoder for one cell
AddLength(type, cell) == IF type = "na" THEN 0 ELSE 2

\* KeyEncoder::Encode of the column's encoder for one cell:
\* a null byte (1 for null, 0 for valid) and the value byte (0 for null)
EncodeCell(type, cell) ==
  IF type = "na" THEN <<>>
  ELSE IF cell = Null THEN <<1, 0>> ELSE <<0, cell>>

\* KeyEncoder::Decode of the column's encoder from the two bytes read
DecodeCell(type, null_byte, value_byte) ==
  IF type = "na" THEN Null
  ELSE IF null_byte = 0 THEN value_byte ELSE Null

\* the loops over the columns run to batch.num_values()
RECURSIVE EncodeRow(_, _, _)
EncodeRow(batch, i, c) ==
  IF c > Len(batch.values) THEN <<>>
  ELSE EncodeCell(KeyTypes[c], batch.values[c][i]) \o EncodeRow(batch, i, c + 1)

RECURSIVE RowLength(_, _, _)
RowLength(batch, i, c) ==
  IF c > Len(batch.values) THEN 0
  ELSE AddLength(KeyTypes[c], batch.values[c][i]) + RowLength(batch, i, c + 1)

\* The loops over the rows of a batch are written as recursions that run the
\* iterations lo..hi in order, first lo..mid, then mid+1..hi.  A value used
\* more than once is handed to a local operator as its argument, so that it
\* is computed once.  Evaluated(x) is TRUE; testing it has x computed before
\* the second half of a loop starts.
Evaluated(x) == x = x

\* offsets_batch of GrouperImpl::ConsumeImpl: the prefix sums of the row lengths
RECURSIVE OffsetsBatch(_, _, _, _)
OffsetsBatch(batch, lo, hi, acc) ==
  IF lo > hi THEN acc
  ELSE IF lo = hi THEN Append(acc, acc[Len(acc)] + RowLength(batch, lo, 1))
  ELSE LET Rest(mid, left) ==
             IF Evaluated(left) THEN OffsetsBatch(batch, mid + 1, hi, left) ELSE left
       IN Rest((lo + hi) \div 2, OffsetsBatch(batch, lo, (lo + hi) \div 2, acc))

\* key_bytes_batch of GrouperImpl::ConsumeImpl
RECURSIVE KeyBytesBatch(_, _, _, _)
KeyBytesBatch(batch, lo, hi, acc) ==
  IF lo > hi THEN acc
  ELSE IF lo = hi THEN acc \o EncodeRow(batch, lo, 1)
  ELSE LET Rest(mid, left) ==
             IF Evaluated(left) THEN KeyBytesBatch(batch, mid + 1, hi, left) ELSE left
       IN Rest((lo + hi) \div 2, KeyBytesBatch(batch, lo, (lo + hi) \div 2, acc))

\* ------------------------------------------------------------ GrouperImpl
\* map_ is a function from key strings to group ids
ImplInit ==
  [map_ |-> <<>>, offsets_ |-> <<0>>, key_bytes_ |-> <<>>, num_groups_ |-> 0]

ImplReset(g) ==
  [map_ |-> <<>>, offsets_ |-> <<>>, key_bytes_ |-> <<>>, num_groups_ |-> 0]

ImplNumGroups(g) == g.num_groups_

\* a variant that hands a new key the id after the next one
ImplEmplaceSkipping(g, key) ==
  IF key \in DOMAIN g.map_ THEN g
  ELSE [map_ |-> g.map_ @@ (key :> (g.num_groups_ + 1)),
        num_groups_ |-> g.num_groups_ + 1,
        key_bytes_ |-> g.key_bytes_ \o key,
        offsets_ |-> Append(g.offsets_, Len(g.key_bytes_) + Len(key))]

\* a variant that does not count the key it stores
ImplEmplaceUncounted(g, key) ==
  IF key \in DOMAIN g.map_ THEN g
  ELSE [map_ |-> g.map_ @@ (key :> g.num_groups_),
        num_groups_ |-> g.num_groups_,
        key_bytes_ |-> g.key_bytes_ \o key,
        offsets_ |-> Append(g.offsets_, Len(g.key_bytes_) + Len(key))]

\* the body of the insert_new_keys branch of VisitKeys for one key
ImplEmplace(g, key) ==
  IF key \in DOMAIN g.map_ THEN g
  ELSE LET Inserted(key_length, next_key_offset) ==
             [map_ |-> g.map_ @@ (key :> g.num_groups_),
              num_groups_ |-> g.num_groups_ + 1,
              key_bytes_ |-> IF key_length > 0 THEN g.key_bytes_ \o key
                             ELSE g.key_bytes_,
              offsets_ |-> IF key_length > 0
                             THEN Append(g.offsets_, next_key_offset + key_length)
                             ELSE g.offsets_]
       IN Inserted(Len(key), Len(g.key_bytes_))

\* a variant that loses the stored ids when a stored key is seen again
VisitKeyAnew(s, i, key_offsets, key_data, insert_new_keys) ==
  LET Visit(key) ==
        IF key \in DOMAIN s.g.map_
          THEN [g |-> [s.g EXCEPT !.map_ = [k \in DOMAIN s.g.map_ |->
                                              (s.g.map_[k] + 1) % s.g.num_groups_]],
                visited |-> Append(s.visited,
                                   [known |-> TRUE, group_id |-> s.g.map_[key]])]
          ELSE IF insert_new_keys
            THEN [g |-> ImplEmplace(s.g, key),
                  visited |-> Append(s.visited,
                                     [known |-> TRUE, group_id |-> s.g.num_groups_])]
            ELSE [g |-> s.g,
                  visited |-> Append(s.visited, [known |-> FALSE, group_id |-> 0])]
  IN Visit(SubSeq(key_data, key_offsets[i + 1] + 1, key_offsets[i + 2]))

\* a variant that stores the sentinel kNoGroupId for a key that is not stored
VisitKeyUnknownAsSentinel(s, i, key_offsets, key_data, insert_new_keys) ==
  LET Emplaced(key, g2) ==
        [g |-> g2,
         visited |-> Append(s.visited, [known |-> TRUE, group_id |-> g2.map_[key]])]
      Visit(key) ==
        IF insert_new_keys
          THEN Emplaced(key, ImplEmplace(s.g, key))
          ELSE IF key \notin DOMAIN s.g.map_
            THEN [g |-> s.g,
                  visited |-> Append(s.visited,
                                     [known |-> FALSE, group_id |-> 2147483647])]
            ELSE [g |-> s.g,
                  visited |-> Append(s.visited,
                                     [known |-> TRUE, group_id |-> s.g.map_[key]])]
  IN Visit(SubSeq(key_data, key_offsets[i + 1] + 1, key_offsets[i + 2]))

\* a variant that visits a key that is not stored as the group 0
VisitKeyAllKnown(s, i, key_offsets, key_data, insert_new_keys) ==
  LET Emplaced(key, g2) ==
        [g |-> g2,
         visited |-> Append(s.visited, [known |-> TRUE, group_id |-> g2.map_[key]])]
      Visit(key) ==
        IF insert_new_keys
          THEN Emplaced(key, ImplEmplace(s.g, key))
          ELSE [g |-> s.g,
                visited |-> Append(s.visited,
                   [known |-> TRUE,
                    group_id |-> IF key \in DOMAIN s.g.map_ THEN s.g.map_[key] ELSE 0])]
  IN Visit(SubSeq(key_data, key_offsets[i + 1] + 1, key_offsets[i + 2]))

\* one iteration of the loop of VisitKeys, for row i (0-based); s = [g, visited],
\* visited collects, per row, the group id handed to visit_group or the call
\* of visit_unknown_group
VisitKey(s, i, key_offsets, key_data, insert_new_keys) ==
  LET Emplaced(key, g2) ==
        [g |-> g2,
         visited |-> Append(s.visited, [known |-> TRUE, group_id |-> g2.map_[key]])]
      Visit(key) ==
        IF insert_new_keys
          THEN Emplaced(key, ImplEmplace(s.g, key))
          ELSE IF key \notin DOMAIN s.g.map_
            THEN [g |-> s.g,
                  visited |-> Append(s.visited, [known |-> FALSE, group_id |-> 0])]
            ELSE [g |-> s.g,
                  visited |-> Append(s.visited,
                                     [known |-> TRUE, group_id |-> s.g.map_[key]])]
  IN Visit(SubSeq(key_data, key_offsets[i + 1] + 1, key_offsets[i + 2]))

\* VisitKeys: the loop over rows lo..hi (0-based)
RECURSIVE VisitKeys(_, _, _, _, _, _)
VisitKeys(s, lo, hi, key_offsets, key_data, insert_new_keys) ==
  IF lo > hi THEN s
  ELSE IF lo = hi THEN VisitKey(s, lo, key_offsets, key_data, insert_new_keys)
  ELSE LET Rest(mid, left) ==
             IF Evaluated(left)
               THEN VisitKeys(left, mid + 1, hi, key_offsets, key_data, insert_new_keys)
               ELSE left
       IN Rest((lo + hi) \div 2,
               VisitKeys(s, lo, (lo + hi) \div 2, key_offsets, key_data, insert_new_keys))

\* the result of a call: status, the id array and its validity bitmap
\* (valid = <<>> stands for "no null bitmap"; populate returns no array)
Result(status, ids, valid) == [status |-> status, ids |-> ids, valid |-> valid]

\* a variant that inserts new keys in every mode
InsertAlways(mode) == TRUE

\* a variant that inserts new keys in a consume only
InsertOnConsume(mode) == mode = "kConsume"

\* the insert_new_keys argument that ConsumeImpl hands to VisitKeys in a mode
InsertNewKeys(mode) == mode # "kLookup"

\* GrouperImpl::ConsumeImpl on a whole batch (offset 0, length batch.length)
ImplConsumeBatch(g, batch, mode) ==
  LET Visited(v) ==
        IF mode = "kPopulate"
          THEN [g |-> v.g, res |-> Result("OK", <<>>, <<>>)]
        ELSE IF mode = "kConsume"
          THEN [g |-> v.g,
                res |-> Result("OK", [i \in 1..batch.length |-> v.visited[i].group_id],
                               <<>>)]
        ELSE [g |-> v.g,
              res |-> Result("OK", [i \in 1..batch.length |-> v.visited[i].group_id],
                             [i \in 1..batch.length |-> v.visited[i].known])]
      Encoded(offsets_batch, key_bytes_batch) ==
        Visited(VisitKeys([g |-> g, visited |-> <<>>], 0, batch.length - 1,
                          offsets_batch, key_bytes_batch, InsertNewKeys(mode)))
  IN Encoded(OffsetsBatch(batch, 1, batch.length, <<0>>),
             KeyBytesBatch(batch, 1, batch.length, <<>>))

\* GrouperImpl::ConsumeImpl(batch, offset, length, mode)
ImplConsumeImpl(g, batch, offset, length, mode) ==
  LET Checked(chk) ==
        IF chk.status # "OK" THEN [g |-> g, res |-> Result(chk.status, <<>>, <<>>)]
        ELSE IF offset # 0 \/ chk.length # batch.length
          THEN ImplConsumeBatch(g, Slice(batch, offset, chk.length), mode)
          ELSE ImplConsumeBatch(g, batch, mode)
  IN Checked(CheckAndCapLengthForConsume(batch.length, offset, length))

\* a read of key_bytes_ at 0-based position p; past the end of the buffer
\* the read yields whatever the memory after it holds
ReadByte(key_bytes, p, garbage) ==
  IF p < Len(key_bytes) THEN key_bytes[p + 1] ELSE garbage[p - Len(key_bytes) + 1]

\* the cell of column c decoded from the key at 0-based position ptr
RECURSIVE ColumnPtr(_, _)
ColumnPtr(ptr, c) ==
  IF c = 1 THEN ptr ELSE ColumnPtr(ptr, c - 1) + AddLength(KeyTypes[c - 1], 0)

\* a variant that decodes row i from the end of its key
ImplGetUniquesFromEnd(g, garbage) ==
  [length |-> g.num_groups_,
   values |-> [c \in 1..NumCols |->
      [i \in 1..g.num_groups_ |->
         DecodeCell(KeyTypes[c],
                    ReadByte(g.key_bytes_, ColumnPtr(g.offsets_[i + 1], c), garbage),
                    ReadByte(g.key_bytes_, ColumnPtr(g.offsets_[i + 1], c) + 1,
                             garbage))]]]

\* GrouperImpl::GetUniques: key_buf_ptrs[i] = key_bytes_.data() + offsets_[i],
\* then every column decoded from those pointers
ImplGetUniques(g, garbage) ==
  LET Decoded(n, key_buf_ptrs) ==
        [length |-> n,
         values |-> [c \in 1..NumCols |->
            [i \in 1..n |->
               DecodeCell(KeyTypes[c],
                          ReadByte(g.key_bytes_, ColumnPtr(key_buf_ptrs[i], c), garbage),
                          ReadByte(g.key_bytes_, ColumnPtr(key_buf_ptrs[i], c) + 1,
                                   garbage))]]]
  IN Decoded(g.num_groups_, [i \in 1..g.num_groups_ |-> g.offsets_[i]])

\* ----------------------------------------- row table, encoder, hash table
\* RowTableEncoder: the row image of row i (1-based) of the columns: the value
\* bytes of the columns that have a payload (0 under a null), then one null
\* bit per column
RECURSIVE ImageValues(_, _, _)
ImageValues(cols, i, c) ==
  IF c > NumCols THEN <<>>
  ELSE (IF KeyTypes[c] = "na" THEN <<>>
        ELSE IF cols[c][i] = Null THEN <<0>> ELSE <<cols[c][i]>>)
       \o ImageValues(cols, i, c + 1)

EncodeImage(cols, i) ==
  ImageValues(cols, i, 1) \o [c \in 1..NumCols |-> IF cols[c][i] = Null THEN 1 ELSE 0]

\* the number of columns before column c that have a payload
RECURSIVE PayloadsBefore(_)
PayloadsBefore(c) ==
  IF c = 1 THEN 0
  ELSE PayloadsBefore(c - 1) + (IF KeyTypes[c - 1] = "na" THEN 0 ELSE 1)

NumPayloads == PayloadsBefore(NumCols + 1)

\* RowTableEncoder::DecodeFixedLengthBuffers for one cell
DecodeImage(image, c) ==
  IF image[NumPayloads + c] = 1 THEN Null ELSE image[PayloadsBefore(c) + 1]

\* RowTableEncoder::PrepareEncodeSelected(start_row, num_rows, cols): the row
\* images of one mini-batch
PrepareEncodeSelected(start_row, num_rows, cols) ==
  [i \in 1..num_rows |-> EncodeImage(cols, start_row + i)]

RECURSIVE SumBytes(_, _)
SumBytes(image, k) == IF k > Len(image) THEN 0 ELSE image[k] + SumBytes(image, k + 1)

\* Hashing32::HashMultiColumn as a two-valued hash, so that different keys collide
HashMultiColumn(images) == [i \in 1..Len(images) |-> SumBytes(images[i], 1) % 2]

\* map_equal_impl_: KeyCompare::CompareColumnsToRows of one encoded row with
\* the row of rows_ that holds group_id
MapEqualImpl(rows, image, group_id) ==
  group_id < Len(rows) /\ rows[group_id + 1] = image

\* map_append_impl_: EncodeSelected into rows_minibatch_, then
\* rows_.AppendSelectionFrom(rows_minibatch_)
MapAppendImpl(rows, images) == rows \o images

\* RowTableImpl::Clean
RowsClean(rows) == <<>>

\* SwissTable::init after cleanup: the empty table; the table is the set of
\* its entries [hash, id]
MapInit == {}

\* SwissTable::early_filter: the bit of a row says that its hash may match an entry
EarlyFilter(map, hashes) ==
  [i \in 1..Len(hashes) |-> \E e \in map : e.hash = hashes[i]]

\* the stored group id whose hash and row image equal those of the probed row
FindId(map, rows, hash, image) ==
  LET Hit(hits) == IF hits = {} THEN Uninit ELSE (CHOOSE e \in hits : TRUE).id
  IN Hit({e \in map : e.hash = hash /\ MapEqualImpl(rows, image, e.id)})

\* SwissTable::find: rows that pass the equality callback get their stored
\* group id, rows that fail have their match bit cleared
Find(map, rows, hashes, images, match_bits) ==
  LET Found(id) ==
        [match_bits |-> [i \in 1..Len(hashes) |-> id[i] # Uninit], group_ids |-> id]
  IN Found([i \in 1..Len(hashes) |->
              IF match_bits[i] THEN FindId(map, rows, hashes[i], images[i])
              ELSE Uninit])

\* util::bit_util::bits_to_indexes(0, ...): the 0-based indexes of the clear bits
RECURSIVE BitsToIndexes(_, _, _)
BitsToIndexes(bits, lo, hi) ==
  IF lo > hi THEN <<>>
  ELSE IF lo = hi THEN (IF bits[lo] THEN <<>> ELSE <<lo - 1>>)
  ELSE BitsToIndexes(bits, lo, (lo + hi) \div 2)
         \o BitsToIndexes(bits, (lo + hi) \div 2 + 1, hi)

\* SwissTable::map_new_keys for the k-th selected row: a row equal to a stored
\* row gets its id, any other row is appended through the append callback and
\* gets the next group id; st = [rows, map, ids], ids = the group ids written,
\* one per selected row
MapNewKey(st, selection, k, hashes, images) ==
  LET Mapped(i, found, id) ==
        IF found # Uninit
          THEN [rows |-> st.rows, map |-> st.map, ids |-> Append(st.ids, found)]
          ELSE [rows |-> MapAppendImpl(st.rows, <<images[i]>>),
                map |-> st.map \cup {[hash |-> hashes[i], id |-> id]},
                ids |-> Append(st.ids, id)]
  IN Mapped(selection[k] + 1,
            FindId(st.map, st.rows, hashes[selection[k] + 1], images[selection[k] + 1]),
            Len(st.rows))

\* SwissTable::map_new_keys: the selected rows lo..hi in selection order
RECURSIVE MapNewKeys(_, _, _, _, _, _)
MapNewKeys(st, selection, lo, hi, hashes, images) ==
  IF lo > hi THEN st
  ELSE IF lo = hi THEN MapNewKey(st, selection, lo, hashes, images)
  ELSE LET Rest(mid, left) ==
             IF Evaluated(left)
               THEN MapNewKeys(left, selection, mid + 1, hi, hashes, images)
               ELSE left
       IN Rest((lo + hi) \div 2,
               MapNewKeys(st, selection, lo, (lo + hi) \div 2, hashes, images))

\* -------------------------------------------------------- GrouperFastImpl
\* dictionaries_[icol] that holds no dictionary
NoDictionary == <<>>

\* GrouperFastImpl::Make for key types whose first is int8 or a dictionary
\* with int8 indices and whose second is NA
FastMake(key_types) ==
  [rows_ |-> <<>>, map_ |-> MapInit, minibatch_size_ |-> minibatch_size_min_,
   key_types_ |-> key_types, dictionaries_ |-> [c \in 1..NumCols |-> NoDictionary]]

FastInit == FastMake(KeyTypes)

\* a variant that keeps the stored rows
FastResetKeepingRows(f) == [f EXCEPT !.map_ = MapInit]

\* a variant that lets go of the dictionaries
FastResetUnbinding(f) ==
  [f EXCEPT !.rows_ = RowsClean(f.rows_), !.map_ = MapInit,
            !.dictionaries_ = [c \in 1..NumCols |-> NoDictionary]]

\* GrouperFastImpl::Reset: rows_.Clean(), map_.cleanup(), map_.init();
\* minibatch_size_ and dictionaries_ are left as they are
FastReset(f) == [f EXCEPT !.rows_ = RowsClean(f.rows_), !.map_ = MapInit]

FastNumGroups(f) == Len(f.rows_)

\* a buffer is the function from the 0-based positions written so far to
\* their content; Store writes the sequence vals at position pos
Store(buf, pos, vals) ==
  [k \in DOMAIN buf \cup (pos..(pos + Len(vals) - 1)) |->
     IF k >= pos /\ k < pos + Len(vals) THEN vals[k - pos + 1] ELSE buf[k]]

\* the array of n elements over a buffer
ArrayOf(buf, n) == [i \in 1..n |-> IF (i - 1) \in DOMAIN buf THEN buf[i - 1] ELSE Uninit]

\* a variant that writes the group ids of every mini-batch at the start of
\* the buffer
BatchGroupIdsAtStart(mode, start_row) == 0

\* a variant that leaves a gap in front of the ids of a later mini-batch
BatchGroupIdsApart(mode, start_row) == IF mode = "kPopulate" THEN 0 ELSE 2 * start_row

\* where the group ids of the mini-batch that starts at start_row are written
BatchGroupIdsPos(mode, start_row) == IF mode = "kPopulate" THEN 0 ELSE start_row

\* the group-id buffer after SwissTable::find has written the ids of the
\* matched rows of the mini-batch at pos
AfterFind(group_ids, pos, found) ==
  [k \in DOMAIN group_ids \cup
         {pos + i - 1 : i \in {j \in 1..Len(found.match_bits) : found.match_bits[j]}} |->
     IF k >= pos /\ k < pos + Len(found.match_bits) /\ found.match_bits[k - pos + 1]
       THEN found.group_ids[k - pos + 1] ELSE group_ids[k]]

\* the group-id buffer after SwissTable::map_new_keys has written new_ids, the
\* ids of the selected rows of the mini-batch at pos
AfterNew(group_ids, pos, selection, new_ids) ==
  [k \in DOMAIN group_ids \cup {pos + selection[j] : j \in 1..Len(selection)} |->
     IF \E j \in 1..Len(selection) : selection[j] = k - pos
       THEN new_ids[CHOOSE j \in 1..Len(selection) : selection[j] = k - pos]
       ELSE group_ids[k]]

\* cols_ after the loop over the batch.num_values() columns of the batch: a
\* column that the batch has not keeps the KeyColumnArray of an earlier call,
\* which for a key of type NA holds no buffer in any call
Cols(batch) ==
  [c \in 1..NumCols |->
     IF c <= Len(batch.values) THEN batch.values[c]
     ELSE [i \in 1..batch.length |-> Null]]

\* one iteration of the mini-batch loop of ConsumeImpl(batch, mode);
\* s = [f, start_row, group_ids, null_bitmap]
MiniBatchStep(s, batch, mode) ==
  LET Inserted(batch_size_next, pos, after_find, ids, new) ==
        [f |-> [s.f EXCEPT !.rows_ = new.rows, !.map_ = new.map,
                           !.minibatch_size_ =
                             Min(minibatch_size_max_, 2 * s.f.minibatch_size_)],
         start_row |-> s.start_row + batch_size_next,
         group_ids |-> AfterNew(after_find, pos, ids, new.ids),
         null_bitmap |-> s.null_bitmap]
      Selected(batch_size_next, pos, after_find, minibatch_hashes, images, ids) ==
        Inserted(batch_size_next, pos, after_find, ids,
                 MapNewKeys([rows |-> s.f.rows_, map |-> s.f.map_, ids |-> <<>>],
                            ids, 1, Len(ids), minibatch_hashes, images))
      Found(batch_size_next, pos, zeroed, minibatch_hashes, images, found) ==
        IF mode = "kLookup"
          THEN [f |-> [s.f EXCEPT !.minibatch_size_ =
                                     Min(minibatch_size_max_, 2 * s.f.minibatch_size_)],
                start_row |-> s.start_row + batch_size_next,
                group_ids |-> AfterFind(zeroed, pos, found),
                null_bitmap |-> Store(s.null_bitmap, s.start_row, found.match_bits)]
          ELSE Selected(batch_size_next, pos, AfterFind(zeroed, pos, found),
                        minibatch_hashes, images,
                        BitsToIndexes(found.match_bits, 1, batch_size_next))
      Hashed(batch_size_next, pos, zeroed, minibatch_hashes, images) ==
        Found(batch_size_next, pos, zeroed, minibatch_hashes, images,
              Find(s.f.map_, s.f.rows_, minibatch_hashes, images,
                   EarlyFilter(s.f.map_, minibatch_hashes)))
      Encoded(batch_size_next, pos, zeroed, images) ==
        Hashed(batch_size_next, pos, zeroed, HashMultiColumn(images), images)
      Sized(batch_size_next, pos) ==
        Encoded(batch_size_next, pos,
                IF mode = "kLookup"
                  THEN Store(s.group_ids, pos, [i \in 1..batch_size_next |-> 0])
                  ELSE s.group_ids,
                PrepareEncodeSelected(s.start_row, batch_size_next, Cols(batch)))
  IN Sized(Min(s.f.minibatch_size_, batch.length - s.start_row),
           BatchGroupIdsPos(mode, s.start_row))

RECURSIVE MiniBatchLoop(_, _, _)
MiniBatchLoop(s, batch, mode) ==
  IF s.start_row >= batch.length THEN s
  ELSE LET Rest(next) ==
             IF Evaluated(next) THEN MiniBatchLoop(next, batch, mode) ELSE next
       IN Rest(MiniBatchStep(s, batch, mode))

\* the loop over the dictionaries of the columns from icol on: the status and
\* the grouper after it; a column of a dictionary key that has no dictionary
\* yet takes the one of the batch, another dictionary than the one it has
\* ends the call
RECURSIVE ProcessDictionaries(_, _, _)
ProcessDictionaries(f, batch, icol) ==
  IF icol > Len(batch.values) THEN [status |-> "OK", f |-> f]
  ELSE IF f.key_types_[icol] # "dictionary" THEN ProcessDictionaries(f, batch, icol + 1)
  ELSE IF f.dictionaries_[icol] = NoDictionary
    THEN ProcessDictionaries([f EXCEPT !.dictionaries_[icol] = batch.dictionaries[icol]],
                             batch, icol + 1)
  ELSE IF f.dictionaries_[icol] # batch.dictionaries[icol]
    THEN [status |-> "NotImplemented", f |-> f]
  ELSE ProcessDictionaries(f, batch, icol + 1)

\* GrouperFastImpl::ConsumeImpl(batch, mode)
FastConsumeBatch(f, batch, mode) ==
  LET Done(s) ==
        IF mode = "kPopulate"
          THEN [f |-> s.f, res |-> Result("OK", <<>>, <<>>)]
        ELSE IF mode = "kConsume"
          THEN [f |-> s.f,
                res |-> Result("OK", ArrayOf(s.group_ids, batch.length), <<>>)]
        ELSE [f |-> s.f,
              res |-> Result("OK", ArrayOf(s.group_ids, batch.length),
                             ArrayOf(s.null_bitmap, batch.length))]
      Bound(d) ==
        IF d.status # "OK" THEN [f |-> d.f, res |-> Result(d.status, <<>>, <<>>)]
        ELSE Done(MiniBatchLoop([f |-> d.f, start_row |-> 0, group_ids |-> <<>>,
                                 null_bitmap |-> <<>>], batch, mode))
  IN Bound(ProcessDictionaries(f, batch, 1))

\* MakeArrayFromScalar
MakeArrayFromScalar(scalar, length) == [i \in 1..length |-> scalar]

\* a variant that makes an array of copies of the first value out of every
\* column, array or scalar
ExpandedOverArrays(batch) ==
  [batch EXCEPT !.values = [j \in 1..Len(batch.values) |->
                              [i \in 1..batch.length |-> batch.values[j][1]]],
                !.scalars = {}]

\* the batch `expanded`: every scalar from the first one on made an array of
\* expanded.length copies
Expanded(batch) ==
  [batch EXCEPT !.values = [j \in 1..Len(batch.values) |->
                              IF IsScalar(batch, j)
                                THEN MakeArrayFromScalar(batch.values[j][1],
                                                         batch.length)
                                ELSE batch.values[j]],
                !.scalars = {}]

\* the broadcast of the scalar arguments, then ConsumeImpl(batch, mode)
FastConsumeSpan(f, batch, mode) ==
  IF \E i \in 1..Len(batch.values) : IsScalar(batch, i)
    THEN FastConsumeBatch(f, Expanded(batch), mode)
    ELSE FastConsumeBatch(f, batch, mode)

\* a variant that checks the offset after it has consumed the batch
FastConsumeImplCheckingLate(f, batch, offset, length, mode) ==
  LET Checked(chk) ==
        IF chk.status # "OK"
          THEN [f |-> FastConsumeBatch(f, batch, mode).f,
                res |-> Result(chk.status, <<>>, <<>>)]
        ELSE IF offset # 0 \/ chk.length # batch.length
          THEN FastConsumeSpan(f, Slice(batch, offset, chk.length), mode)
          ELSE FastConsumeSpan(f, batch, mode)
  IN Checked(CheckAndCapLengthForConsume(batch.length, offset, length))

\* GrouperFastImpl::ConsumeImpl(batch, offset, length, mode)
FastConsumeImpl(f, batch, offset, length, mode) ==
  LET Checked(chk) ==
        IF chk.status # "OK" THEN [f |-> f, res |-> Result(chk.status, <<>>, <<>>)]
        ELSE IF offset # 0 \/ chk.length # batch.length
          THEN FastConsumeSpan(f, Slice(batch, offset, chk.length), mode)
          ELSE FastConsumeSpan(f, batch, mode)
  IN Checked(CheckAndCapLengthForConsume(batch.length, offset, length))

\* the decode loop of GrouperFastImpl::GetUniques: rows_ decoded in chunks
\* of at most minibatch_size_max_ rows
RECURSIVE DecodeLoop(_, _, _)
DecodeLoop(rows, start_row, cols) ==
  IF start_row >= Len(rows) THEN cols
  ELSE LET Decoded(batch_size_next) ==
             DecodeLoop(rows, start_row + batch_size_next,
                        [c \in 1..NumCols |->
                           cols[c] \o [i \in 1..batch_size_next |->
                                         DecodeImage(rows[start_row + i], c)]])
       IN Decoded(Min(Len(rows) - start_row, minibatch_size_max_))

\* GrouperFastImpl::GetUniques
FastGetUniques(f) ==
  LET Decoded(num_groups, cols) ==
        [length |-> num_groups,
         values |-> [c \in 1..NumCols |->
                       IF KeyTypes[c] = "na" THEN [i \in 1..num_groups |-> Null]
                       ELSE cols[c]]]
  IN Decoded(Len(f.rows_), DecodeLoop(f.rows_, 0, [c \in 1..NumCols |-> <<>>]))

\* ---------------------------------------------------------- row segmenters
\* the largest group_id_t (2^32 - 1 in the source), held here as the largest
\* integer of the model; no grouper of the model counts that many groups
kNoGroupId == 2147483647

kDefaultExtends == TRUE

Segment(offset, length, is_open_end, extends) ==
  [offset |-> offset, length |-> length, is_open_end |-> is_open_end,
   extends |-> extends]

\* a variant that marks every segment as open-ended
MakeSegmentOpen(batch_length, offset, length, extends) ==
  Segment(offset, length, TRUE, extends)

MakeSegment(batch_length, offset, length, extends) ==
  Segment(offset, length, offset + length >= batch_length, extends)

\* a batch handed to a segmenter: its length, the types of its columns and
\* its columns; a column is an array of length cells or a scalar (data = <<v>>)
SegBatch(length, types, values) ==
  [length |-> length, types |-> types, values |-> values]

ArrayValue(data) == [is_scalar |-> FALSE, data |-> data]

ScalarValue(v) == [is_scalar |-> TRUE, data |-> <<v>>]

\* a variant that checks the number of columns only
CheckForGetSegmentsOfSize(batch, key_types) ==
  IF Len(batch.values) # Len(key_types) THEN "Invalid" ELSE "OK"

CheckForGetSegments(batch, key_types) ==
  IF Len(batch.values) # Len(key_types) THEN "Invalid"
  ELSE IF \E i \in 1..Len(key_types) : batch.types[i] # key_types[i] THEN "Invalid"
  ELSE "OK"

\* is_fixed_width of a key type, and the byte width of a fixed-width type
\* the classes of key types: boolean (1 bit), fixed-width (here one byte),
\* dictionary (an index of one byte), binary-like, large-binary-like and null
TypeClasses == {"bool", "int8", "dictionary", "binary", "large_binary", "na"}

\* is_fixed_width: the type is of the fixed-width class
IsFixedWidth(type) == type = "int8"

\* DataType::byte_width: the bytes of the payload, none for a boolean, and no
\* width for a type that has no fixed one
ByteWidth(type) ==
  IF type \in {"int8", "dictionary"} THEN 1
  ELSE IF type = "bool" THEN 0
  ELSE 0 - 1

\* GrouperFastImpl::CanUse on a little-endian machine
CanUse(key_types) ==
  /\ Len(key_types) # 0
  /\ \A i \in 1..Len(key_types) : key_types[i] # "large_binary"

\* Grouper::Make
GrouperMake(key_types) ==
  IF CanUse(key_types) THEN FastMake(key_types) ELSE ImplInit

\* the segmenter state: the variant, the key types, the members of
\* SimpleKeySegmenter and the members of AnyKeysSegmenter
NoKeysSegmenterMake ==
  [variant |-> "NoKeys", key_types_ |-> <<>>,
   extend_was_called_ |-> FALSE, save_key_data_ |-> <<>>,
   grouper_ |-> FastInit, save_group_id_ |-> kNoGroupId]

SimpleKeySegmenterMake(key_type) ==
  [variant |-> "SimpleKey", key_types_ |-> <<key_type>>,
   extend_was_called_ |-> FALSE,
   save_key_data_ |-> [i \in 1..ByteWidth(key_type) |-> 0],
   grouper_ |-> FastInit, save_group_id_ |-> kNoGroupId]

AnyKeysSegmenterMake(key_types) ==
  [variant |-> "AnyKeys", key_types_ |-> key_types,
   extend_was_called_ |-> FALSE, save_key_data_ |-> <<>>,
   grouper_ |-> GrouperMake(key_types), save_group_id_ |-> kNoGroupId]

\* a variant that makes the simple segmenter for a nullable key as well
RowSegmenterMakeOfNullable(key_types, nullable_keys) ==
  IF Len(key_types) = 0 THEN NoKeysSegmenterMake
  ELSE IF Len(key_types) = 1 /\ IsFixedWidth(key_types[1])
    THEN SimpleKeySegmenterMake(key_types[1])
    ELSE AnyKeysSegmenterMake(key_types)

RowSegmenterMake(key_types, nullable_keys) ==
  IF Len(key_types) = 0 THEN NoKeysSegmenterMake
  ELSE IF ~nullable_keys /\ Len(key_types) = 1 /\ IsFixedWidth(key_types[1])
    THEN SimpleKeySegmenterMake(key_types[1])
    ELSE AnyKeysSegmenterMake(key_types)

\* the result of GetSegments: the segmenter after the call, the status and
\* the segments
SegResult(s, status, segments) == [sg |-> s, status |-> status, segments |-> segments]

\* a variant that returns a segment for an empty batch as well
NoKeysGetSegmentsOfAny(s, batch) ==
  SegResult(s, "OK", <<MakeSegment(batch.length, 0, batch.length - 0, kDefaultExtends)>>)

NoKeysGetSegments(s, batch) ==
  IF CheckForGetSegments(batch, <<>>) # "OK" THEN SegResult(s, "Invalid", <<>>)
  ELSE IF batch.length = 0 THEN SegResult(s, "OK", <<>>)
  ELSE SegResult(s, "OK",
                 <<MakeSegment(batch.length, 0, batch.length - 0, kDefaultExtends)>>)

NoKeysReset(s) == s

\* SimpleKeySegmenter::GetMatchLength with the cursor at row `cursor`
RECURSIVE MatchCursor(_, _, _, _, _)
MatchCursor(match_bytes, match_width, array_bytes, cursor, length) ==
  IF cursor < length
       /\ SubSeq(array_bytes, match_width * cursor + 1, match_width * (cursor + 1))
            = match_bytes
    THEN MatchCursor(match_bytes, match_width, array_bytes, cursor + 1, length)
    ELSE cursor

\* a variant that begins to compare at the row after offset
GetMatchLengthFromNext(match_bytes, match_width, array_bytes, offset, length) ==
  IF offset + 1 < length
       /\ SubSeq(array_bytes, match_width * (offset + 1) + 1, match_width * (offset + 2))
            = match_bytes
    THEN Min(MatchCursor(match_bytes, match_width, array_bytes, offset + 1, length),
             length) - offset
    ELSE 0

\* a variant that stops after one row
GetMatchLengthOfOne(match_bytes, match_width, array_bytes, offset, length) == 1

GetMatchLength(match_bytes, match_width, array_bytes, offset, length) ==
  Min(MatchCursor(match_bytes, match_width, array_bytes, offset, length), length)
    - offset

\* a variant that never compares
ExtendAlways(s, data) ==
  [sg |-> [s EXCEPT !.extend_was_called_ = TRUE], extends |-> kDefaultExtends]

\* SimpleKeySegmenter::Extend on the key bytes at data: the segmenter after
\* the call and the value returned
Extend(s, data) ==
  IF ~s.extend_was_called_
    THEN [sg |-> [s EXCEPT !.extend_was_called_ = TRUE], extends |-> kDefaultExtends]
    ELSE [sg |-> s,
          extends |-> s.save_key_data_ = SubSeq(data, 1, Len(s.save_key_data_))]

SaveKeyData(s, data) ==
  [s EXCEPT !.save_key_data_ = SubSeq(data, 1, Len(s.save_key_data_))]

\* the loop of SimpleKeySegmenter::GetSegments over the runs of an array
RECURSIVE SimpleSegments(_, _, _, _, _, _)
SimpleSegments(data, byte_width, length, offset, extends, segments) ==
  IF offset >= length THEN segments
  ELSE LET Matched(match_length) ==
             SimpleSegments(data, byte_width, length, offset + match_length, extends,
                            Append(segments,
                                   MakeSegment(length, offset, match_length,
                                               IF offset = 0 THEN extends ELSE FALSE)))
       IN Matched(GetMatchLength(
                    SubSeq(data, offset * byte_width + 1, (offset + 1) * byte_width),
                    byte_width, data, offset, length))

\* one iteration of the loop of SimpleKeySegmenter::GetSegments: the offset
\* and the segments after it
SimpleScanIteration(data, byte_width, length, offset, extends, segments) ==
  LET Matched(match_length) ==
        [offset |-> offset + match_length,
         segments |-> Append(segments,
                             MakeSegment(length, offset, match_length,
                                         IF offset = 0 THEN extends ELSE FALSE))]
  IN Matched(GetMatchLength(
               SubSeq(data, offset * byte_width + 1, (offset + 1) * byte_width),
               byte_width, data, offset, length))

SimpleKeyGetSegments(s, batch) ==
  IF CheckForGetSegments(batch, s.key_types_) # "OK" THEN SegResult(s, "Invalid", <<>>)
  ELSE IF batch.length = 0 THEN SegResult(s, "OK", <<>>)
  ELSE LET value == batch.values[1]
           byte_width == ByteWidth(batch.types[1])
           Extended(e) ==
             IF value.is_scalar
               THEN SegResult(SaveKeyData(e.sg, value.data), "OK",
                              <<MakeSegment(batch.length, 0, batch.length, e.extends)>>)
               ELSE SegResult(
                      SaveKeyData(e.sg, SubSeq(value.data,
                                               (batch.length - 1) * byte_width + 1,
                                               batch.length * byte_width)),
                      "OK",
                      SimpleSegments(value.data, byte_width, batch.length, 0,
                                     e.extends, <<>>))
       IN Extended(Extend(s, value.data))

\* a variant that leaves the segmenter as it is
SimpleKeyResetNothing(s) == s

SimpleKeyReset(s) == [s EXCEPT !.extend_was_called_ = FALSE]

\* the batch as the segmenter's grouper reads it: GrouperFastImpl::ConsumeImpl
\* makes an array of batch.length copies out of every scalar
BroadcastScalars(batch) ==
  [length |-> batch.length,
   values |-> [c \in 1..Len(batch.values) |->
                 IF batch.values[c].is_scalar
                   THEN [i \in 1..batch.length |-> batch.values[c].data[1]]
                   ELSE batch.values[c].data]]

\* AnyKeysSegmenter::MapGroupIdAt with offset 0: the grouper after the call
\* and the group id of the first row
MapGroupIdAt(grouper, batch) ==
  LET Consumed(r) == [grouper |-> r.f, group_id |-> r.res.ids[1]]
  IN Consumed(FastConsumeImpl(grouper, BroadcastScalars(batch), 0, 1, "kConsume"))

\* the loop of AnyKeysSegmenter::GetSegments over the group ids, and the
\* segment pushed after it
RECURSIVE AnySegments(_, _, _, _, _, _)
AnySegments(group_ids, batch_length, cursor, current_group_offset, extends, segments) ==
  IF cursor < Len(group_ids)
    THEN IF group_ids[cursor + 1] # group_ids[current_group_offset + 1]
           THEN AnySegments(group_ids, batch_length, cursor + 1, cursor, extends,
                            Append(segments,
                                   MakeSegment(batch_length, current_group_offset,
                                               cursor - current_group_offset,
                                               IF current_group_offset = 0
                                                 THEN extends ELSE FALSE)))
           ELSE AnySegments(group_ids, batch_length, cursor + 1, current_group_offset,
                            extends, segments)
    ELSE Append(segments,
                MakeSegment(batch_length, current_group_offset,
                            cursor - current_group_offset,
                            IF current_group_offset = 0 THEN extends ELSE FALSE))

\* one iteration of the loop of AnyKeysSegmenter::GetSegments over the group
\* ids: the cursor, the offset of the current group and the segments after it
AnyScanIteration(group_ids, length, cursor, current_group_offset, extends, segments) ==
  IF group_ids[cursor + 1] # group_ids[current_group_offset + 1]
    THEN [cursor |-> cursor + 1,
          current_group_offset |-> cursor,
          segments |-> Append(segments,
                              MakeSegment(length, current_group_offset,
                                          cursor - current_group_offset,
                                          IF current_group_offset = 0
                                            THEN extends ELSE FALSE))]
    ELSE [cursor |-> cursor + 1,
          current_group_offset |-> current_group_offset,
          segments |-> segments]

\* AnyKeysSegmenter::GetSegments on a batch that has rows, up to its loop:
\* the segmenter, the group ids of the batch and the extends flag
AnyKeysConsumed(s, batch) ==
  LET Mapped(m) ==
        LET Consumed(r) ==
              [sg |-> [s EXCEPT !.grouper_ = r.f], group_ids |-> r.res.ids,
               extends |-> m.extends]
        IN Consumed(FastConsumeImpl(FastReset(m.grouper), BroadcastScalars(batch),
                                    0, 0 - 1, "kConsume"))
  IN IF s.save_group_id_ # kNoGroupId
       THEN Mapped([grouper |-> MapGroupIdAt(s.grouper_, batch).grouper,
                    extends |-> MapGroupIdAt(s.grouper_, batch).group_id
                                  = s.save_group_id_])
       ELSE Mapped([grouper |-> s.grouper_, extends |-> kDefaultExtends])

\* a variant that resets the grouper before it maps the first row of the batch
AnyKeysGetSegmentsResettingFirst(s, batch) ==
  IF CheckForGetSegments(batch, s.key_types_) # "OK" THEN SegResult(s, "Invalid", <<>>)
  ELSE IF batch.length = 0 THEN SegResult(s, "OK", <<>>)
  ELSE LET Mapped(m) ==
             LET Consumed(r) ==
                   SegResult([s EXCEPT !.grouper_ = r.f,
                                       !.save_group_id_ = r.res.ids[batch.length]],
                             "OK",
                             AnySegments(r.res.ids, batch.length, 1, 0, m.extends, <<>>))
             IN Consumed(FastConsumeImpl(m.grouper, BroadcastScalars(batch),
                                         0, 0 - 1, "kConsume"))
       IN IF s.save_group_id_ # kNoGroupId
            THEN Mapped([grouper |-> MapGroupIdAt(FastReset(s.grouper_), batch).grouper,
                         extends |-> MapGroupIdAt(FastReset(s.grouper_), batch).group_id
                                       = s.save_group_id_])
            ELSE Mapped([grouper |-> FastReset(s.grouper_), extends |-> kDefaultExtends])

AnyKeysGetSegments(s, batch) ==
  IF CheckForGetSegments(batch, s.key_types_) # "OK" THEN SegResult(s, "Invalid", <<>>)
  ELSE IF batch.length = 0 THEN SegResult(s, "OK", <<>>)
  ELSE LET Mapped(m) ==
             LET Consumed(r) ==
                   SegResult([s EXCEPT !.grouper_ = r.f,
                                       !.save_group_id_ = r.res.ids[batch.length]],
                             "OK",
                             AnySegments(r.res.ids, batch.length, 1, 0, m.extends, <<>>))
             IN Consumed(FastConsumeImpl(FastReset(m.grouper), BroadcastScalars(batch),
                                         0, 0 - 1, "kConsume"))
       IN IF s.save_group_id_ # kNoGroupId
            THEN Mapped([grouper |-> MapGroupIdAt(s.grouper_, batch).grouper,
                         extends |-> MapGroupIdAt(s.grouper_, batch).group_id
                                       = s.save_group_id_])
            ELSE Mapped([grouper |-> s.grouper_, extends |-> kDefaultExtends])

\* a variant that resets the grouper and keeps the saved group id
AnyKeysResetKeepingId(s) == [s EXCEPT !.grouper_ = FastReset(s.grouper_)]

AnyKeysReset(s) ==
  [s EXCEPT !.grouper_ = FastReset(s.grouper_), !.save_group_id_ = kNoGroupId]

\* RowSegmenter::GetSegments and RowSegmenter::Reset of the segmenter made
GetSegments(s, batch) ==
  IF s.variant = "NoKeys" THEN NoKeysGetSegments(s, batch)
  ELSE IF s.variant = "SimpleKey" THEN SimpleKeyGetSegments(s, batch)
  ELSE AnyKeysGetSegments(s, batch)

SegmenterReset(s) ==
  IF s.variant = "NoKeys" THEN NoKeysReset(s)
  ELSE IF s.variant = "SimpleKey" THEN SimpleKeyReset(s)
  ELSE AnyKeysReset(s)

\* ----------------------------------------------------------- MakeGroupings
\* a buffer of int32 is a function from the positions 0..n-1 to its content
ZeroBuffer(n) == [i \in 0..(n - 1) |-> 0]

UninitBuffer(n) == [i \in 0..(n - 1) |-> Uninit]

\* the counting loop: raw_offsets[ids.Value(i)] += 1 for the ids from i on;
\* a write past the end of the buffer is remembered in oob
RECURSIVE CountIds(_, _, _)
CountIds(ids, i, counted) ==
  IF i > Len(ids) THEN counted
  ELSE IF ids[i] \in DOMAIN counted.raw_offsets
    THEN CountIds(ids, i + 1,
                  [counted EXCEPT !.raw_offsets[ids[i]] = counted.raw_offsets[ids[i]] + 1])
    ELSE CountIds(ids, i + 1, [counted EXCEPT !.oob = TRUE])

\* the loop that turns the counts of the groups from id on into offsets
RECURSIVE SumCounts(_, _, _, _)
SumCounts(raw_offsets, num_groups, id, length) ==
  IF id < num_groups
    THEN SumCounts([raw_offsets EXCEPT ![id] = length], num_groups, id + 1,
                   length + raw_offsets[id])
    ELSE [raw_offsets EXCEPT ![num_groups] = length]

\* the placement loop: raw_sort_indices[raw_offsets[ids.Value(i)]++] = i for
\* the ids from i on, the index i counted from 0
RECURSIVE PlaceIds(_, _, _)
PlaceIds(ids, i, placed) ==
  IF i > Len(ids) THEN placed
  ELSE IF ids[i] \in DOMAIN placed.raw_offsets
            /\ placed.raw_offsets[ids[i]] \in DOMAIN placed.raw_sort_indices
    THEN PlaceIds(ids, i + 1,
                  [raw_offsets |->
                     [placed.raw_offsets EXCEPT ![ids[i]] = placed.raw_offsets[ids[i]] + 1],
                   raw_sort_indices |->
                     [placed.raw_sort_indices EXCEPT ![placed.raw_offsets[ids[i]]] = i - 1],
                   oob |-> placed.oob])
    ELSE PlaceIds(ids, i + 1, [placed EXCEPT !.oob = TRUE])

\* a variant that returns the offsets the placement loop has moved
ReturnedOffsetsMoved(offsets, offsets_copy) == offsets_copy

\* the offsets of the list array returned: the buffer `offsets`, of which the
\* placement loop moves a copy
ReturnedOffsets(offsets, offsets_copy) == offsets

\* what a call returns: a status, and with status OK the list array of
\* num_groups lists, its offsets and its values
Groupings(status, length, offsets, sort_indices) ==
  [status |-> status, length |-> length, offsets |-> offsets,
   sort_indices |-> sort_indices]

NoListArray(status) == Groupings(status, 0, <<>>, <<>>)

\* Grouper::MakeGroupings(ids, num_groups): the outcomes of the call in a
\* build.  The checks that an id is below num_groups are DCHECKs: they abort
\* a debug build and are no code in a release build.  A release build that
\* writes past the end of a buffer has undefined behaviour: it is killed, or
\* it returns what the loops have left in the buffers.
MakeGroupings(ids, num_groups, build) ==
  IF \E i \in 1..Len(ids) : ids[i] = Null THEN {NoListArray("Invalid")}
  ELSE IF build = "debug" /\ \E i \in 1..Len(ids) : ~(ids[i] < num_groups)
    THEN {NoListArray("abort")}
  ELSE LET Counted(c) ==
             LET Summed(offsets) ==
                   LET Placed(p) ==
                         (IF c.oob \/ p.oob THEN {NoListArray("abort")} ELSE {})
                           \cup {Groupings("OK", num_groups,
                                           ReturnedOffsets(offsets, p.raw_offsets),
                                           p.raw_sort_indices)}
                   IN Placed(PlaceIds(ids, 1,
                                      [raw_offsets |-> offsets,
                                       raw_sort_indices |-> UninitBuffer(Len(ids)),
                                       oob |-> FALSE]))
             IN Summed(SumCounts(c.raw_offsets, num_groups, 0, 0))
       IN Counted(CountIds(ids, 1,
                           [raw_offsets |-> ZeroBuffer(num_groups + 1), oob |-> FALSE]))

\* compute::Take(array, indices, TakeOptions::NoBoundsCheck()): the values
\* of the array at the indices, both held as buffers
Take(array, indices) == [j \in DOMAIN indices |-> array[indices[j]]]

\* a variant that leaves the values in the order of the array
ApplyGroupingsInPlace(groupings, array) ==
  [status |-> "OK", length |-> groupings.length, offsets |-> groupings.offsets,
   values |-> array]

\* Grouper::ApplyGroupings(groupings, array): the list array of
\* groupings.length lists with the offsets of the groupings and the values
\* taken at its indices
ApplyGroupings(groupings, array) ==
  [status |-> "OK", length |-> groupings.length, offsets |-> groupings.offsets,
   values |-> Take(array, groupings.sort_indices)]

\* ------------------------------------------------------------ the system
\* impl, fast: the fallback and the fast-path grouper under the same calls;
\* fresh: a fallback and a fast-path grouper created at the last reset() and
\*        fed the calls made since;
\* out: the call that has just returned, with what it returned, until the
\*        caller has taken the result (op = "idle": no call is in progress;
\*        a grouper is not reentrant, so calls are made one after the other);
\* hist: what the callers have fed and been handed since the last reset()
VARIABLES impl, fast, fresh, out, hist

\* sg: a row segmenter; sout: what its last call was and returned;
\* shist: the rows it has been fed since it was made or reset, and the runs
\*        that its segments, joined by their extends flags, cut them into;
\* mg: a call of Grouper::MakeGroupings, its arguments and its result
VARIABLES sg, sout, shist, mg

grouper_vars == <<impl, fast, fresh, out, hist>>

segmenter_vars == <<sg, sout, shist>>

vars == <<impl, fast, fresh, out, hist, sg, sout, shist, mg>>

EmptyBatch == MakeBatch(<<>>)

NoResult == [status |-> "OK", ids |-> <<>>, valid |-> <<>>, uniques |-> EmptyBatch]

CallResult(res) ==
  [status |-> res.status, ids |-> res.ids, valid |-> res.valid, uniques |-> EmptyBatch]

UniquesResult(u) == [status |-> "OK", ids |-> <<>>, valid |-> <<>>, uniques |-> u]

Idle ==
  [op |-> "idle", batch |-> EmptyBatch, offset |-> 0, length |-> 0 - 1,
   main |-> [impl |-> NoResult, fast |-> NoResult],
   fresh |-> [impl |-> NoResult, fast |-> NoResult]]

Impls == {"impl", "fast"}

\* no call of a segmenter yet; a call is held with the batch, the status and
\* the segments returned, the segments that the segmenter made anew at the
\* last reset returned, the key bytes that were saved before the call, and
\* what the general segmenter beside a simple segmenter returned
SegIdle ==
  [op |-> "none", batch |-> SegBatch(0, <<>>, <<>>), status |-> "OK",
   segments |-> <<>>, fresh |-> <<>>, saved |-> <<>>,
   general |-> [status |-> "OK", segments |-> <<>>]]

\* the key of row i (from 1) of a segmenter's batch, and the keys of its rows
KeyAt(batch, i) ==
  [c \in 1..Len(batch.values) |->
     IF batch.values[c].is_scalar THEN batch.values[c].data[1]
     ELSE batch.values[c].data[i]]

KeysOf(batch) == [i \in 1..batch.length |-> KeyAt(batch, i)]

\* the lengths of the runs after the segments of one more batch: the first
\* segment is joined to the last run when it extends it
JoinSegments(runs, segments) ==
  LET lengths == [i \in 1..Len(segments) |-> segments[i].length]
  IN IF runs # <<>> /\ segments # <<>> /\ segments[1].extends
       THEN SubSeq(runs, 1, Len(runs) - 1)
              \o <<runs[Len(runs)] + lengths[1]>> \o Tail(lengths)
       ELSE runs \o lengths

\* the rows fed since the segmenter was made or reset, the runs its segments
\* cut them into, a segmenter made anew at the last reset and fed the same
\* batches, the number of resets, whether the call before the last one
\* was a GetSegments of an empty batch, and a general segmenter made for the
\* key types, which is given the calls of a simple segmenter
SegHistInit(s) ==
  [stream |-> <<>>, runs |-> <<>>, fresh |-> s, resets |-> 0, after_empty |-> FALSE,
   general |-> AnyKeysSegmenterMake(s.key_types_)]

\* no call of MakeGroupings yet
NoGroupings ==
  [op |-> "none", ids |-> <<>>, num_groups |-> 0, build |-> "release",
   res |-> NoListArray("none"), array |-> <<>>, applied |-> <<>>]

\* order: the distinct key tuples fed through populate and consume, by first
\*        appearance;
\* handed: per grouper, the pairs <<key tuple, id>> handed to the callers: the
\*        ids returned by consume and the valid ids returned by lookup;
\* fresh: the same pairs for the groupers of fresh
HistInit ==
  [order |-> <<>>, handed |-> [x \in Impls |-> {}], fresh |-> [x \in Impls |-> {}]]

Range(seq) == {seq[i] : i \in 1..Len(seq)}

\* the rows [offset, offset+length) of a batch; a negative length means all
\* rows from offset on
ArgRows(batch, offset, length) ==
  [i \in 1..(IF length < 0 THEN batch.length - offset ELSE length) |->
     Row(batch, offset + i)]

\* the key tuples of rows that are not in order, by their first row
RECURSIVE AppendNew(_, _)
AppendNew(order, rows) ==
  LET First(new) ==
        IF new = {} THEN order
        ELSE AppendNew(Append(order, rows[CHOOSE i \in new : \A j \in new : i <= j]),
                       rows)
  IN First({i \in 1..Len(rows) : rows[i] \notin Range(order)})

\* the (offset, length) pairs a batch is fed with: the whole batch and, for
\* the batches of MaxLen rows, its tail, its first row and a negative offset
OffsetLengths(b) ==
  {<<0, 0 - 1>>}
    \cup (IF b.length = MaxLen /\ MaxLen > 0
            THEN {<<1, 0 - 1>>, <<0, 1>>, <<0 - 1, 0 - 1>>} ELSE {})

\* the calls made on the groupers: short batches with an offset and a length,
\* batches that lack a key column, and, while the fast path is at its first
\* mini-batch size, long batches
CallArgs ==
  UNION {{<<b, ol[1], ol[2]>> : ol \in OffsetLengths(b)} : b \in ShortBatches}
    \cup {<<b, 0, 0 - 1>> : b \in NarrowBatches}
    \cup (IF fast.minibatch_size_ = minibatch_size_min_
            THEN {<<b, 0, 0 - 1>> : b \in LongBatches} ELSE {})

\* the pairs handed to the caller by a call that returned res for rows
Handed(mode, rows, res) ==
  IF mode = "kConsume"
    THEN {<<rows[i], res.ids[i]>> : i \in 1..Len(rows)}
  ELSE IF mode = "kLookup"
    THEN {<<rows[i], res.ids[i]>> : i \in {j \in 1..Len(rows) : res.valid[j]}}
    ELSE {}

HistAfterCall(mode, batch, offset, length, res, fres) ==
  IF res["impl"].status # "OK" THEN hist
  ELSE
    LET After(rows) ==
          [order |-> IF mode = "kLookup" THEN hist.order
                     ELSE AppendNew(hist.order, rows),
           handed |-> [x \in Impls |-> hist.handed[x] \cup Handed(mode, rows, res[x])],
           fresh |-> [x \in Impls |-> hist.fresh[x] \cup Handed(mode, rows, fres[x])]]
    IN After(ArgRows(batch, offset, length))

Call(op, mode, batch, offset, length) ==
  LET Returned(ri, rf, si, sf) ==
        /\ impl' = ri.g
        /\ fast' = rf.f
        /\ fresh' = [impl |-> si.g, fast |-> sf.f]
        /\ out' = [op |-> op, batch |-> batch, offset |-> offset, length |-> length,
                   main |-> [impl |-> CallResult(ri.res), fast |-> CallResult(rf.res)],
                   fresh |-> [impl |-> CallResult(si.res), fast |-> CallResult(sf.res)]]
        /\ hist' = HistAfterCall(mode, batch, offset, length,
                                 [impl |-> ri.res, fast |-> rf.res],
                                 [impl |-> si.res, fast |-> sf.res])
        /\ UNCHANGED <<segmenter_vars, mg>>
      \* a grouper of fresh in the state of the main one returns what it returns
      Main(ri, rf) ==
        Returned(ri, rf,
                 IF fresh.impl = impl THEN ri
                 ELSE ImplConsumeImpl(fresh.impl, batch, offset, length, mode),
                 IF fresh.fast = fast THEN rf
                 ELSE FastConsumeImpl(fresh.fast, batch, offset, length, mode))
  IN
  /\ out.op = "idle"
  /\ Main(ImplConsumeImpl(impl, batch, offset, length, mode),
          FastConsumeImpl(fast, batch, offset, length, mode))

Populate == \E a \in CallArgs : Call("populate", "kPopulate", a[1], a[2], a[3])

Consume == \E a \in CallArgs : Call("consume", "kConsume", a[1], a[2], a[3])

Lookup == \E a \in CallArgs : Call("lookup", "kLookup", a[1], a[2], a[3])

\* what the two bytes after key_bytes_ may hold
Garbage == [1..2 -> 0..MaxVal]

GetUniques ==
  \E garbage \in Garbage :
    /\ out.op = "idle"
    /\ out' = [op |-> "uniques", batch |-> EmptyBatch, offset |-> 0, length |-> 0 - 1,
               main |-> [impl |-> UniquesResult(ImplGetUniques(impl, garbage)),
                         fast |-> UniquesResult(FastGetUniques(fast))],
               fresh |-> [impl |-> UniquesResult(ImplGetUniques(fresh.impl, garbage)),
                          fast |-> UniquesResult(FastGetUniques(fresh.fast))]]
    /\ UNCHANGED <<impl, fast, fresh, hist, segmenter_vars, mg>>

Reset ==
  /\ out.op = "idle"
  /\ impl' = ImplReset(impl)
  /\ fast' = FastReset(fast)
  /\ fresh' = [impl |-> ImplInit, fast |-> FastInit]
  /\ out' = [op |-> "reset", batch |-> EmptyBatch, offset |-> 0, length |-> 0 - 1,
             main |-> [impl |-> NoResult, fast |-> NoResult],
             fresh |-> [impl |-> NoResult, fast |-> NoResult]]
  /\ hist' = HistInit
  /\ UNCHANGED <<segmenter_vars, mg>>

\* the caller takes the result of the call that has returned
Return ==
  /\ out.op # "idle"
  /\ out' = Idle
  /\ UNCHANGED <<impl, fast, fresh, hist, segmenter_vars, mg>>

\* the groupers before any call, the segmenter before any call
GroupersInit ==
  /\ impl = ImplInit
  /\ fast = FastInit
  /\ fresh = [impl |-> ImplInit, fast |-> FastInit]
  /\ out = Idle
  /\ hist = HistInit

SegmenterInit(s) ==
  /\ sg = s
  /\ sout = SegIdle
  /\ shist = SegHistInit(s)

Init ==
  /\ GroupersInit
  /\ SegmenterInit(NoKeysSegmenterMake)
  /\ mg = NoGroupings

Next == Populate \/ Consume \/ Lookup \/ GetUniques \/ Reset \/ Return

Spec == Init /\ [][Next]_vars

\* ------------------------------------------- the system of one segmenter
\* the key lists a segmenter is made for: no key, one fixed-width key that
\* is not nullable, and the nullable keys of the groupers
SegSchemas ==
  {[key_types |-> <<>>, nullable_keys |-> FALSE],
   [key_types |-> <<"int8">>, nullable_keys |-> FALSE],
   [key_types |-> KeyTypes, nullable_keys |-> TRUE]}

\* the first column of a batch of n rows: an array or a scalar
KeyColumns(n, cells) ==
  {ArrayValue(c) : c \in [1..n -> cells]} \cup {ScalarValue(v) : v \in cells}

\* the batches of up to MaxLen rows that match the key types
SegBatches(key_types) ==
  IF key_types = <<>>
    THEN {SegBatch(n, <<>>, <<>>) : n \in 0..MaxLen}
  ELSE IF key_types = <<"int8">>
    THEN UNION {{SegBatch(n, key_types, <<col>>) : col \in KeyColumns(n, 0..MaxVal)}
                  : n \in 0..MaxLen}
  ELSE UNION {{SegBatch(n, key_types, <<col, ArrayValue([i \in 1..n |-> Null])>>)
                 : col \in KeyColumns(n, Cells("int8"))}
                : n \in 0..MaxLen}

\* batches of no row and of one row that do not match the key types: with a
\* column more, with a column less, and with a first column of another type
BadBatches(key_types) ==
  LET Column(type, n) == ArrayValue([i \in 1..n |-> IF type = "na" THEN Null ELSE 0])
      Columns(types, n) == [c \in 1..Len(types) |-> Column(types[c], n)]
      Bad(types) == {SegBatch(n, types, Columns(types, n)) : n \in 0..1}
  IN Bad(Append(key_types, "int8"))
       \cup (IF key_types = <<>> THEN {}
             ELSE Bad(SubSeq(key_types, 1, Len(key_types) - 1))
                    \cup Bad([key_types EXCEPT ![1] = "bool"]))

\* GetSegments(batch) on the segmenter and on the one made anew at the
\* last reset
CallGetSegments ==
  \E batch \in SegBatches(sg.key_types_) \cup BadBatches(sg.key_types_) :
    /\ Len(shist.stream) + batch.length <= MaxStream
    /\ LET Returned(r, rf, rg) ==
             /\ sg' = r.sg
             /\ sout' = [op |-> "segments", batch |-> batch, status |-> r.status,
                         segments |-> r.segments, fresh |-> rf.segments,
                         saved |-> sg.save_key_data_,
                         general |-> [status |-> rg.status, segments |-> rg.segments]]
             /\ shist' = [stream |-> IF r.status = "OK"
                                       THEN shist.stream \o KeysOf(batch)
                                       ELSE shist.stream,
                          runs |-> JoinSegments(shist.runs, r.segments),
                          fresh |-> rf.sg,
                          resets |-> shist.resets,
                          after_empty |-> /\ sout.op = "segments"
                                          /\ sout.status = "OK"
                                          /\ sout.batch.length = 0,
                          general |-> rg.sg]
           \* a new segmenter in the state of the segmenter returns what it returns
           Main(r) ==
             Returned(r, IF shist.fresh = sg THEN r ELSE GetSegments(shist.fresh, batch),
                      IF sg.variant = "SimpleKey"
                        THEN AnyKeysGetSegments(shist.general, batch)
                        ELSE SegResult(shist.general, "OK", <<>>))
       IN Main(GetSegments(sg, batch))
    /\ UNCHANGED <<grouper_vars, mg>>

\* Reset() on the segmenter; a new segmenter is made beside it
CallReset ==
  /\ shist.resets < MaxResets
  /\ sg' = SegmenterReset(sg)
  /\ sout' = [SegIdle EXCEPT !.op = "reset"]
  /\ shist' = [stream |-> <<>>, runs |-> <<>>,
               fresh |-> RowSegmenterMake(sg.key_types_, sg.variant = "AnyKeys"),
               resets |-> shist.resets + 1,
               after_empty |-> FALSE,
               general |-> AnyKeysReset(shist.general)]
  /\ UNCHANGED <<grouper_vars, mg>>

SegInit ==
  /\ GroupersInit
  /\ \E schema \in SegSchemas :
       SegmenterInit(RowSegmenterMake(schema.key_types, schema.nullable_keys))
  /\ mg = NoGroupings

SegNext == CallGetSegments \/ CallReset

SegSpec == SegInit /\ [][SegNext]_vars

\* --------------------------------------- the system of RowSegmenter::Make
\* the key lists handed to RowSegmenter::Make
KeyLists == UNION {[1..n -> TypeClasses] : n \in 0..MaxKeys}

\* no segmenter is made yet
NoSegmenter == [variant |-> "none"]

\* `sout` holds the arguments of a call of RowSegmenter::Make, `sg` the
\* segmenter it returns
MakeInit ==
  /\ GroupersInit
  /\ sg = NoSegmenter
  /\ \E key_types \in KeyLists, nullable_keys \in BOOLEAN :
       sout = [op |-> "none", key_types |-> key_types, nullable_keys |-> nullable_keys]
  /\ shist = SegHistInit(NoKeysSegmenterMake)
  /\ mg = NoGroupings

CallMake ==
  /\ sout.op = "none"
  /\ sg' = RowSegmenterMake(sout.key_types, sout.nullable_keys)
  /\ sout' = [sout EXCEPT !.op = "make"]
  /\ UNCHANGED <<grouper_vars, shist, mg>>

MakeNext == CallMake

MakeSpec == MakeInit /\ [][MakeNext]_vars

\* ------------------- the system of a fast-path grouper with a dictionary key
\* the dictionaries of a batch: the values in two orders
Dictionaries ==
  {[i \in 1..(MaxVal + 1) |-> i - 1], [i \in 1..(MaxVal + 1) |-> MaxVal + 1 - i]}

DictKeyTypes == <<"dictionary", "na">>

\* the batches of indices into a dictionary
DictBatches ==
  {[length |-> b.length, values |-> b.values, dictionaries |-> <<d, NoDictionary>>]
     : b \in ShortBatches, d \in Dictionaries}

\* the batches of MaxLen rows in which one column or both are scalars
ScalarBatches ==
  {[length |-> MaxLen,
    values |-> <<IF 1 \in s THEN <<b.values[1][1]>> ELSE b.values[1],
                 IF 2 \in s THEN <<Null>> ELSE b.values[2]>>,
    dictionaries |-> b.dictionaries,
    scalars |-> s]
     : b \in {d \in DictBatches : d.length = MaxLen}, s \in {{1}, {2}, {1, 2}}}

\* the calls: a whole batch, a batch with a negative offset, or some rows of a
\* batch that has scalars
DictCallArgs ==
  {<<b, 0, 0 - 1>> : b \in DictBatches}
    \cup {<<b, 0 - 1, 0 - 1>> : b \in {d \in DictBatches : d.length = 0}}
    \cup {<<b, o, l>> : b \in ScalarBatches, o \in 0..1, l \in {0 - 1, 1}}

\* here `fast` is a grouper made for DictKeyTypes, `out` its last call and
\* `hist` the dictionary of the first batch it went through and the number of
\* its resets
DictInit ==
  /\ impl = ImplInit
  /\ fast = FastMake(DictKeyTypes)
  /\ fresh = [impl |-> ImplInit, fast |-> FastInit]
  /\ out = Idle
  /\ hist = [first |-> NoDictionary, resets |-> 0]
  /\ SegmenterInit(NoKeysSegmenterMake)
  /\ mg = NoGroupings

DictCall ==
  \E op \in {"populate", "consume", "lookup"}, a \in DictCallArgs :
    /\ out.op = "idle"
    /\ LET Returned(r) ==
             /\ fast' = r.f
             /\ out' = [Idle EXCEPT !.op = op, !.batch = a[1], !.offset = a[2],
                                    !.length = a[3],
                                    !.main["fast"] = CallResult(r.res)]
             /\ hist' = IF hist.first = NoDictionary /\ r.res.status # "Invalid"
                          THEN [hist EXCEPT !.first = a[1].dictionaries[1]]
                          ELSE hist
       IN Returned(FastConsumeImpl(fast, a[1], a[2], a[3],
                                   IF op = "populate" THEN "kPopulate"
                                   ELSE IF op = "consume" THEN "kConsume"
                                   ELSE "kLookup"))
    /\ UNCHANGED <<impl, fresh, segmenter_vars, mg>>

DictReset ==
  /\ out.op = "idle"
  /\ hist.resets < MaxResets
  /\ fast' = FastReset(fast)
  /\ out' = [Idle EXCEPT !.op = "reset"]
  /\ hist' = [hist EXCEPT !.resets = hist.resets + 1]
  /\ UNCHANGED <<impl, fresh, segmenter_vars, mg>>

\* the caller takes the result
DictReturn ==
  /\ out.op # "idle"
  /\ out' = Idle
  /\ UNCHANGED <<impl, fast, fresh, hist, segmenter_vars, mg>>

DictNext == DictCall \/ DictReset \/ DictReturn

DictSpec == DictInit /\ [][DictNext]_vars

\* ------------------------------------- the system of the loops of a call
\* Here the calls are taken one loop iteration at a time.  `hist` names the
\* object that the calls are made on, a segmenter or the fast-path grouper;
\* `sout` is the GetSegments in progress with the locals of its loop, `out`
\* the populate, consume or lookup in progress with the locals of the
\* mini-batch loop.
NoScan ==
  [pc |-> "idle", batch |-> SegBatch(0, <<>>, <<>>), segments |-> <<>>,
   data |-> <<>>, offset |-> 0, cursor |-> 0, current_group_offset |-> 0,
   extends |-> FALSE, iterations |-> 0]

NoMiniBatch ==
  [pc |-> "idle", batch |-> EmptyBatch, mode |-> "kPopulate", start_row |-> 0,
   group_ids |-> <<>>, null_bitmap |-> <<>>, res |-> NoResult, iterations |-> 0]

LoopInit ==
  /\ impl = ImplInit
  /\ fast = FastInit
  /\ fresh = [impl |-> ImplInit, fast |-> FastInit]
  /\ out = NoMiniBatch
  /\ sout = NoScan
  /\ mg = NoGroupings
  /\ \E object \in {"simple", "general", "grouper"} :
       /\ hist = [object |-> object]
       /\ sg = IF object = "general" THEN RowSegmenterMake(KeyTypes, TRUE)
               ELSE RowSegmenterMake(<<"int8">>, FALSE)
       /\ shist = SegHistInit(sg)

\* SimpleKeySegmenter::GetSegments up to its loop
StartSimpleKeyGetSegments ==
  /\ hist.object = "simple"
  /\ sout.pc = "idle"
  /\ \E batch \in SegBatches(sg.key_types_) :
       LET value == batch.values[1]
           Extended(e) ==
             IF value.is_scalar
               THEN /\ sg' = SaveKeyData(e.sg, value.data)
                    /\ sout' = [NoScan EXCEPT
                                  !.pc = "done", !.batch = batch,
                                  !.segments = <<MakeSegment(batch.length, 0,
                                                             batch.length, e.extends)>>]
               ELSE /\ sg' = e.sg
                    /\ sout' = [NoScan EXCEPT !.pc = "simple", !.batch = batch,
                                              !.data = value.data,
                                              !.extends = e.extends]
       IN IF batch.length = 0
            THEN sg' = sg /\ sout' = [NoScan EXCEPT !.pc = "done", !.batch = batch]
            ELSE Extended(Extend(sg, value.data))
  /\ UNCHANGED <<grouper_vars, shist, mg>>

\* one iteration of the loop over the runs
SimpleScanStep ==
  /\ sout.pc = "simple"
  /\ sout.offset < sout.batch.length
  /\ LET Iterated(n) ==
           sout' = [sout EXCEPT !.offset = n.offset, !.segments = n.segments,
                                !.iterations = sout.iterations + 1]
     IN Iterated(SimpleScanIteration(sout.data, ByteWidth(sout.batch.types[1]),
                                     sout.batch.length, sout.offset, sout.extends,
                                     sout.segments))
  /\ UNCHANGED <<grouper_vars, sg, shist, mg>>

\* the end of the loop: the key of the last row is saved
SimpleScanEnd ==
  /\ sout.pc = "simple"
  /\ sout.offset >= sout.batch.length
  /\ LET byte_width == ByteWidth(sout.batch.types[1])
     IN sg' = SaveKeyData(sg, SubSeq(sout.data,
                                     (sout.batch.length - 1) * byte_width + 1,
                                     sout.batch.length * byte_width))
  /\ sout' = [sout EXCEPT !.pc = "done"]
  /\ UNCHANGED <<grouper_vars, shist, mg>>

\* AnyKeysSegmenter::GetSegments up to its loop
StartAnyKeysGetSegments ==
  /\ hist.object = "general"
  /\ sout.pc = "idle"
  /\ \E batch \in SegBatches(sg.key_types_) :
       LET Consumed(r) ==
             /\ sg' = r.sg
             /\ sout' = [NoScan EXCEPT !.pc = "general", !.batch = batch,
                                       !.data = r.group_ids, !.cursor = 1,
                                       !.extends = r.extends]
       IN IF batch.length = 0
            THEN sg' = sg /\ sout' = [NoScan EXCEPT !.pc = "done", !.batch = batch]
            ELSE Consumed(AnyKeysConsumed(sg, batch))
  /\ UNCHANGED <<grouper_vars, shist, mg>>

\* one iteration of the loop over the group ids
AnyScanStep ==
  /\ sout.pc = "general"
  /\ sout.cursor < Len(sout.data)
  /\ LET Iterated(n) ==
           sout' = [sout EXCEPT !.cursor = n.cursor,
                                !.current_group_offset = n.current_group_offset,
                                !.segments = n.segments,
                                !.iterations = sout.iterations + 1]
     IN Iterated(AnyScanIteration(sout.data, sout.batch.length, sout.cursor,
                                  sout.current_group_offset, sout.extends,
                                  sout.segments))
  /\ UNCHANGED <<grouper_vars, sg, shist, mg>>

\* the end of the loop: the last segment is pushed and the last group id saved
AnyScanEnd ==
  /\ sout.pc = "general"
  /\ sout.cursor >= Len(sout.data)
  /\ sout' = [sout EXCEPT
                !.pc = "done",
                !.segments = Append(sout.segments,
                                    MakeSegment(sout.batch.length,
                                                sout.current_group_offset,
                                                sout.cursor - sout.current_group_offset,
                                                IF sout.current_group_offset = 0
                                                  THEN sout.extends ELSE FALSE))]
  /\ sg' = [sg EXCEPT !.save_group_id_ = sout.data[sout.batch.length]]
  /\ UNCHANGED <<grouper_vars, shist, mg>>

\* GetSegments returns
ScanReturn ==
  /\ sout.pc = "done"
  /\ sout' = NoScan
  /\ UNCHANGED <<grouper_vars, sg, shist, mg>>

\* GrouperFastImpl::ConsumeImpl(batch, mode) up to the mini-batch loop
StartConsumeImpl ==
  /\ hist.object = "grouper"
  /\ out.pc = "idle"
  /\ \E mode \in {"kPopulate", "kConsume", "kLookup"},
        batch \in ShortBatches
                    \cup (IF fast.minibatch_size_ = minibatch_size_min_
                            THEN LongBatches ELSE {}) :
       out' = [NoMiniBatch EXCEPT !.pc = "loop", !.batch = batch, !.mode = mode]
  /\ UNCHANGED <<impl, fast, fresh, hist, segmenter_vars, mg>>

\* one iteration of the mini-batch loop
MiniBatchIteration ==
  /\ out.pc = "loop"
  /\ out.start_row < out.batch.length
  /\ LET Iterated(next) ==
           /\ fast' = next.f
           /\ out' = [out EXCEPT !.start_row = next.start_row,
                                 !.group_ids = next.group_ids,
                                 !.null_bitmap = next.null_bitmap,
                                 !.iterations = out.iterations + 1]
     IN Iterated(MiniBatchStep([f |-> fast, start_row |-> out.start_row,
                                group_ids |-> out.group_ids,
                                null_bitmap |-> out.null_bitmap],
                               out.batch, out.mode))
  /\ UNCHANGED <<impl, fresh, hist, segmenter_vars, mg>>

\* the end of the mini-batch loop: the Datum returned
MiniBatchEnd ==
  /\ out.pc = "loop"
  /\ out.start_row >= out.batch.length
  /\ out' = [out EXCEPT
               !.pc = "done",
               !.res = CallResult(
                         IF out.mode = "kPopulate" THEN Result("OK", <<>>, <<>>)
                         ELSE IF out.mode = "kConsume"
                           THEN Result("OK", ArrayOf(out.group_ids, out.batch.length),
                                       <<>>)
                         ELSE Result("OK", ArrayOf(out.group_ids, out.batch.length),
                                     ArrayOf(out.null_bitmap, out.batch.length)))]
  /\ UNCHANGED <<impl, fast, fresh, hist, segmenter_vars, mg>>

\* ConsumeImpl returns
ConsumeReturn ==
  /\ out.pc = "done"
  /\ out' = NoMiniBatch
  /\ UNCHANGED <<impl, fast, fresh, hist, segmenter_vars, mg>>

\* the steps of a call in progress
LoopStep ==
  \/ SimpleScanStep \/ SimpleScanEnd \/ AnyScanStep \/ AnyScanEnd \/ ScanReturn
  \/ MiniBatchIteration \/ MiniBatchEnd \/ ConsumeReturn

LoopNext ==
  \/ StartSimpleKeyGetSegments \/ SimpleScanStep \/ SimpleScanEnd
  \/ StartAnyKeysGetSegments \/ AnyScanStep \/ AnyScanEnd \/ ScanReturn
  \/ StartConsumeImpl \/ MiniBatchIteration \/ MiniBatchEnd \/ ConsumeReturn

\* a call is in progress: its next step is enabled, ENABLED <<LoopStep>>_vars
Busy == sout.pc # "idle" \/ out.pc # "idle"

\* a call that has begun goes on, for the code has no point at which it
\* waits: weak fairness of LoopStep, WF_vars(LoopStep), written with Busy for
\* ENABLED <<LoopStep>>_vars
LoopFairness == []<>(~Busy) \/ []<><<LoopStep>>_vars

LoopSpec == LoopInit /\ [][LoopNext]_vars /\ LoopFairness

\* --------------------------------------- the system of one MakeGroupings
Builds == {"debug", "release"}

\* the id arrays: up to MaxIds ids, each null or in 0..MaxGroups
IdArrays == UNION {[1..n -> {Null} \cup (0..MaxGroups)] : n \in 0..MaxIds}

\* the call is made with any id array and any num_groups, in either build
GroupingInit ==
  /\ GroupersInit
  /\ SegmenterInit(NoKeysSegmenterMake)
  /\ \E ids \in IdArrays, num_groups \in 0..MaxGroups, build \in Builds :
       mg = [NoGroupings EXCEPT !.op = "call", !.ids = ids,
                                !.num_groups = num_groups, !.build = build]

CallMakeGroupings ==
  /\ mg.op = "call"
  /\ \E res \in MakeGroupings(mg.ids, mg.num_groups, mg.build) :
       mg' = [mg EXCEPT !.op = "return", !.res = res]
  /\ UNCHANGED <<grouper_vars, segmenter_vars>>

\* ApplyGroupings on the groupings returned and any array of as many values
\* as there are ids; the indices of the groupings are positions of the array
CallApplyGroupings ==
  /\ mg.op = "return"
  /\ mg.res.status = "OK"
  /\ \A j \in DOMAIN mg.res.sort_indices :
       mg.res.sort_indices[j] \in 0..(Len(mg.ids) - 1)
  /\ \E array \in [0..(Len(mg.ids) - 1) -> 0..MaxVal] :
       mg' = [mg EXCEPT !.op = "applied", !.array = array,
                        !.applied = ApplyGroupings(mg.res, array)]
  /\ UNCHANGED <<grouper_vars, segmenter_vars>>

GroupingNext == CallMakeGroupings \/ CallApplyGroupings

GroupingSpec == GroupingInit /\ [][GroupingNext]_vars

\* -------------------------------------------------------------- observers
\* the two groupers under the calls, and the two groupers of fresh
Main == [impl |-> impl, fast |-> fast]

NumGroupsOf(gs, x) ==
  IF x = "impl" THEN ImplNumGroups(gs.impl) ELSE FastNumGroups(gs.fast)

UniquesOf(gs, x, garbage) ==
  IF x = "impl" THEN ImplGetUniques(gs.impl, garbage) ELSE FastGetUniques(gs.fast)

\* what a call in mode `mode` on grouper x of gs returns, and the grouper after it
CallOf(gs, x, batch, offset, length, mode) ==
  IF x = "impl"
    THEN LET Called(r) == [g |-> r.g, res |-> r.res]
         IN Called(ImplConsumeImpl(gs.impl, batch, offset, length, mode))
    ELSE LET Called(r) == [g |-> r.f, res |-> r.res]
         IN Called(FastConsumeImpl(gs.fast, batch, offset, length, mode))

\* the batch of one row that holds a key tuple
KeyBatch(key) == MakeBatch(<<key[1]>>)

\* the id stored for a key tuple in grouper x of gs, Uninit if it stores none:
\* map_.find(key) of the fallback grouper, SwissTable::find of the fast one
IdOf(gs, x, key) ==
  IF x = "impl"
    THEN LET Stored(k) == IF k \in DOMAIN gs.impl.map_ THEN gs.impl.map_[k] ELSE Uninit
         IN Stored(EncodeRow(KeyBatch(key), 1, 1))
    ELSE LET Stored(images) ==
               FindId(gs.fast.map_, gs.fast.rows_, HashMultiColumn(images)[1], images[1])
         IN Stored(PrepareEncodeSelected(0, 1, KeyBatch(key).values))

\* the rows of the call that has just returned
OutRows == ArgRows(out.batch, out.offset, out.length)

\* the call that has just returned was op and succeeded
HasReturned(op) == out.op = op /\ out.main.impl.status = "OK"

Ids(pairs) == {p[2] : p \in pairs}

\* ------------------------------------------------------------------ claims
\* ids[i] = ids[j] exactly for the rows i, j of rows with equal key tuples
\* (Null = Null, and Null differs from every value)
EqualIdsIffEqualKeys(rows, ids) ==
  /\ Len(ids) = Len(rows)
  /\ \A i \in 1..Len(rows) : \A j \in 1..Len(rows) :
       (ids[i] = ids[j]) <=> (rows[i] = rows[j])

\* C1: the ids that a consume call returns, on the fallback and on the fast
\* grouper in any reachable state, are equal for two rows of the batch if and
\* only if the two rows have equal key tuples, nulls being equal to nulls only.
C1_EqualKeysEqualIds ==
  HasReturned("consume") =>
    \A x \in Impls : EqualIdsIffEqualKeys(OutRows, out.main[x].ids)

\* a consume of a batch that is cut into two mini-batches has returned equal
\* ids for equal rows and different ids for a row of the first and a different
\* row of the second mini-batch
C1_Witness ==
  /\ HasReturned("consume")
  /\ out.batch.length > minibatch_size_min_
  /\ \E i \in 1..Len(OutRows) : \E j \in 1..Len(OutRows) :
       /\ i < j /\ j > minibatch_size_min_
       /\ OutRows[i] # OutRows[j]
       /\ \A x \in Impls : out.main[x].ids[i] # out.main[x].ids[j]
  /\ \E i \in 1..Len(OutRows) : \E j \in 1..Len(OutRows) :
       /\ i # j /\ OutRows[i] = OutRows[j]
       /\ \A x \in Impls : out.main[x].ids[i] = out.main[x].ids[j]

\* C2: between resets, a key tuple that populate or consume inserts receives
\* the id num_groups() has at that moment: ids go 0, 1, 2, ... in the order of
\* first appearance over the calls and over the rows of a call, mini-batches
\* included.  hist.order lists the key tuples fed so far by first appearance:
\* the k-th of them has id k-1 in both groupers, in the ids handed to the
\* callers and in a lookup, and num_groups() is their number.
C2_IdsInOrderOfFirstAppearance ==
  \A x \in Impls :
    /\ NumGroupsOf(Main, x) = Len(hist.order)
    /\ \A k \in 1..Len(hist.order) : IdOf(Main, x, hist.order[k]) = k - 1
    /\ \A p \in hist.handed[x] :
         p[2] \in 0..(Len(hist.order) - 1) /\ hist.order[p[2] + 1] = p[1]
    /\ HasReturned("consume") =>
         \A i \in 1..Len(OutRows) : hist.order[out.main[x].ids[i] + 1] = OutRows[i]

\* a consume cut into two mini-batches has returned id 0 for the key of its
\* first mini-batch and id 1 for the new key of its second mini-batch
C2_Witness ==
  /\ HasReturned("consume")
  /\ out.batch.length > minibatch_size_min_
  /\ Len(hist.order) = 2
  /\ \A x \in Impls :
       /\ out.main[x].ids[1] = 0
       /\ out.main[x].ids[out.batch.length] = 1
       /\ NumGroupsOf(Main, x) = 2

\* a key that had the id `before` has the id `after` after the call op that
\* returned res for rows: the id is the same, and it is returned for the key
KeepsId(key, before, after, op, res, rows) ==
  before # Uninit =>
    /\ after = before
    /\ (op \in {"consume", "lookup"} /\ res.status = "OK") =>
         \A i \in 1..Len(rows) : rows[i] = key => res.ids[i] = before

\* C3: the id of a stored key tuple is permanent until reset(): a step other
\* than reset() keeps the id of every stored key, a consume or a lookup
\* returns that id for every row with that key, and num_groups() never
\* decreases.
C3_IdsArePermanent ==
  [][out'.op # "reset" =>
       \A x \in Impls :
         /\ NumGroupsOf(Main', x) >= NumGroupsOf(Main, x)
         /\ hist.handed[x] \subseteq hist'.handed[x]
         /\ \A p \in hist'.handed[x] : \A q \in hist'.handed[x] :
              p[1] = q[1] => p[2] = q[2]
         /\ \A key \in KeyTuples :
              KeepsId(key, IdOf(Main, x, key), IdOf(Main', x, key), out'.op,
                      out'.main[x], ArgRows(out'.batch, out'.offset, out'.length))]_vars

\* a consume has returned id 1 again for a key that had been handed id 1, on
\* groupers that hold more keys than the batch has rows
C3_Witness ==
  /\ HasReturned("consume")
  /\ Len(OutRows) = 1
  /\ \A x \in Impls :
       /\ out.main[x].ids[1] = 1
       /\ NumGroupsOf(Main, x) = 3
       /\ Cardinality(hist.handed[x]) = 3

\* C4 as stated: once an id has been returned, the ids returned so far are
\* exactly [0, num_groups()), so that num_groups() is their maximum plus one.
C4_ReturnedIdsAreAllIds ==
  \A x \in Impls :
    Ids(hist.handed[x]) # {} =>
      Ids(hist.handed[x]) = 0..(NumGroupsOf(Main, x) - 1)

\* C4: every id returned so far is below num_groups(), and the ids returned so
\* far are exactly [0, num_groups()) once every key tuple fed through populate
\* or consume has been returned its id by a consume or a lookup; populate
\* inserts keys without returning their ids.
C4_ReturnedIdsBelowNumGroups ==
  \A x \in Impls :
    /\ Ids(hist.handed[x]) \subseteq 0..(NumGroupsOf(Main, x) - 1)
    /\ Cardinality(Ids(hist.handed[x])) = Cardinality({p[1] : p \in hist.handed[x]})
    /\ Range(hist.order) \subseteq {p[1] : p \in hist.handed[x]} =>
         Ids(hist.handed[x]) = 0..(NumGroupsOf(Main, x) - 1)

\* populate has stored three keys and only the id 2 has been returned
C4_Witness ==
  /\ HasReturned("consume")
  /\ \A x \in Impls :
       /\ NumGroupsOf(Main, x) = 3
       /\ Ids(hist.handed[x]) = {2}

\* C5: a lookup marks a row valid exactly if its key tuple has been fed
\* before, the value of a valid row is the id consume returned for that key,
\* and a row with a key never fed is marked absent, also when that key occurs
\* several times in the batch.
C5_LookupReturnsAssignedIds ==
  HasReturned("lookup") =>
    \A x \in Impls :
      /\ Len(out.main[x].ids) = Len(OutRows)
      /\ Len(out.main[x].valid) = Len(OutRows)
      /\ \A i \in 1..Len(OutRows) :
           /\ out.main[x].valid[i] <=> OutRows[i] \in Range(hist.order)
           /\ out.main[x].valid[i] =>
                /\ hist.order[out.main[x].ids[i] + 1] = OutRows[i]
                /\ \A p \in hist.handed[x] :
                     p[1] = OutRows[i] => p[2] = out.main[x].ids[i]

\* a lookup of a batch with twice the same key, never fed, has marked both
\* rows absent on groupers that hold two keys
C5_Witness ==
  /\ HasReturned("lookup")
  /\ Len(OutRows) = 2
  /\ OutRows[1] = OutRows[2]
  /\ \A x \in Impls :
       /\ ~out.main[x].valid[1] /\ ~out.main[x].valid[2]
       /\ NumGroupsOf(Main, x) = 2

\* C6: a lookup inserts nothing: after it num_groups(), the stored id of
\* every key tuple and the rows of uniques() are what they were before it, and
\* the same lookup made again returns the same ids and the same null bitmap,
\* so a key that was absent is absent again.
C6_LookupNeverInserts ==
  [][out'.op = "lookup" =>
       \A x \in Impls :
         /\ NumGroupsOf(Main', x) = NumGroupsOf(Main, x)
         /\ \A key \in KeyTuples : IdOf(Main', x, key) = IdOf(Main, x, key)
         /\ \A garbage \in Garbage :
              UniquesOf(Main', x, garbage) = UniquesOf(Main, x, garbage)
         /\ CallResult(CallOf(Main', x, out'.batch, out'.offset, out'.length,
                              "kLookup").res) = out'.main[x]]_vars

\* a lookup of a stored key and of a key that is not stored has returned, and
\* the groupers hold the one key they held
C6_Witness ==
  /\ HasReturned("lookup")
  /\ Len(OutRows) = 2
  /\ \A x \in Impls :
       /\ out.main[x].valid[1] /\ ~out.main[x].valid[2]
       /\ NumGroupsOf(Main, x) = 1
       /\ IdOf(Main, x, OutRows[2]) = Uninit

\* uniques u of grouper x of fresh has num_groups() rows, and its row k is the
\* key tuple of every row for which the grouper returned the id k
UniquesAgree(x, u) ==
  /\ u.length = NumGroupsOf(fresh, x)
  /\ \A c \in 1..NumCols : Len(u.values[c]) = u.length
  /\ \A p \in hist.fresh[x] : p[2] \in 0..(u.length - 1) /\ Row(u, p[2] + 1) = p[1]
  /\ (out.op = "consume" /\ out.fresh[x].status = "OK") =>
       /\ Len(out.fresh[x].ids) = Len(OutRows)
       /\ \A i \in 1..Len(OutRows) : Row(u, out.fresh[x].ids[i] + 1) = OutRows[i]

\* C7: on a grouper that has been fed populate and consume calls since it was
\* created (the groupers of fresh), uniques() has num_groups() rows, its row k
\* is the key tuple of every input row for which consume returned k, and
\* gathering it by the ids returned for a batch gives back the batch's keys.
C7_UniquesRowsAreTheKeys ==
  \A x \in Impls :
    /\ \A garbage \in Garbage : UniquesAgree(x, UniquesOf(fresh, x, garbage))
    /\ out.op = "uniques" => UniquesAgree(x, out.fresh[x].uniques)

\* uniques() has returned three rows, a null key among them, on groupers that
\* have handed out the three ids
C7_Witness ==
  /\ out.op = "uniques"
  /\ \A x \in Impls :
       /\ out.fresh[x].uniques.length = 3
       /\ Ids(hist.fresh[x]) = {0, 1, 2}
       /\ \E i \in 1..3 : Row(out.fresh[x].uniques, i) = <<Null, Null>>

\* C8: after reset() a grouper returns what a new grouper returns: every call
\* since the reset has returned, on both groupers, the ids, the null bitmap
\* and the uniques() that the groupers of fresh have returned, and num_groups()
\* is theirs.
C8_ResetGrouperLikeFresh ==
  \A x \in Impls :
    /\ out.main[x] = out.fresh[x]
    /\ NumGroupsOf(Main, x) = NumGroupsOf(fresh, x)

\* C9: right after reset() num_groups() is 0 and uniques() is empty, and a
\* second reset() leaves both groupers in the state the first one left them
\* in, so that every following call returns the same.
C9_ResetIdempotent ==
  out.op = "reset" =>
    /\ \A x \in Impls :
         /\ NumGroupsOf(Main, x) = 0
         /\ \A garbage \in Garbage : UniquesOf(Main, x, garbage).length = 0
    /\ ImplReset(impl) = impl
    /\ FastReset(fast) = fast

\* reset() has returned on groupers that had consumed batches
C9_Witness ==
  /\ out.op = "reset"
  /\ fast.minibatch_size_ = minibatch_size_max_
  /\ impl.offsets_ = <<>>

\* the state of grouper x of gs after the call in mode on the rows of out'
AfterCall(gs, x, batch, offset, length, mode) ==
  CallOf(gs, x, batch, offset, length, mode).g

\* C10: populate and consume store the same: from any grouper state, a
\* populate leaves each grouper in the state a consume of the same rows would
\* leave it in, and a consume in the state a populate would, so that groupers
\* fed the same batches end with the same num_groups() and uniques(); and the
\* ids handed out later for keys stored by either are their ranks in the order
\* of first appearance.
C10_PopulateStoresLikeConsume ==
  [][/\ out'.op = "populate" =>
          \A x \in Impls :
            Main'[x] = AfterCall(Main, x, out'.batch, out'.offset, out'.length,
                                 "kConsume")
     /\ out'.op = "consume" =>
          \A x \in Impls :
            Main'[x] = AfterCall(Main, x, out'.batch, out'.offset, out'.length,
                                 "kPopulate")
     /\ \A x \in Impls : \A p \in hist'.handed[x] :
          hist'.order[p[2] + 1] = p[1]]_vars

\* a populate cut into two mini-batches has stored two keys
C10_Witness ==
  /\ HasReturned("populate")
  /\ out.batch.length > minibatch_size_min_
  /\ \A x \in Impls : NumGroupsOf(Main, x) = 2 /\ hist.handed[x] = {}

\* C11: the fast-path grouper and the fallback grouper return the same under
\* the same calls, resets included: every call has returned the same ids, the
\* same validity bits and the same uniques() rows on both, and num_groups() is
\* the same.
C11_FastAndFallbackAgree ==
  /\ out.main["fast"] = out.main["impl"]
  /\ NumGroupsOf(Main, "fast") = NumGroupsOf(Main, "impl")

\* the fast-path grouper f with a mini-batch size that takes every batch of
\* the model as a single chunk
SingleChunk(f) == [f EXCEPT !.minibatch_size_ = minibatch_size_max_]

\* the mode of the call op
ModeOf(op) ==
  IF op = "populate" THEN "kPopulate"
  ELSE IF op = "consume" THEN "kConsume" ELSE "kLookup"

\* the call r on a single chunk has returned res and left the rows, the hash
\* table and the uniques() of the grouper f
SameAsChunk(r, res, f) ==
  /\ CallResult(r.res) = res
  /\ r.f.rows_ = f.rows_
  /\ r.f.map_ = f.map_
  /\ FastGetUniques(r.f) = FastGetUniques(f)

\* the call r has returned res and left the grouper g
SameAsRows(r, res, g) == CallResult(r.res) = res /\ r.g = g

\* C12: what the fast path returns and stores does not depend on the current
\* mini-batch size: every populate, consume and lookup returns the ids and
\* validity bits, and leaves the rows and the hash table (so num_groups() and
\* uniques()), that the same call returns and leaves when the batch is
\* processed as a single chunk.
C12_MiniBatchSizeIsUnobservable ==
  [][out'.op \in {"populate", "consume", "lookup"} =>
       SameAsChunk(FastConsumeImpl(SingleChunk(fast), out'.batch, out'.offset,
                                   out'.length, ModeOf(out'.op)),
                   out'.main["fast"], fast')]_vars

\* a consume at the first mini-batch size has been cut into two mini-batches,
\* and the key of the first mini-batch, repeated in the second one, has its id
C12_Witness ==
  /\ HasReturned("consume")
  /\ out.batch.length > minibatch_size_min_ + 1
  /\ fast.minibatch_size_ = 4 * minibatch_size_min_
  /\ OutRows[minibatch_size_min_ + 1] = OutRows[1]
  /\ OutRows[minibatch_size_min_ + 2] # OutRows[1]
  /\ out.main["fast"].ids[minibatch_size_min_ + 1] = 0
  /\ out.main["fast"].ids[minibatch_size_min_ + 2] = 1

\* the batch made of only the rows [offset, offset+n) of a batch
OnlyRows(batch, offset, n) ==
  MakeBatch(SubSeq(batch.values[1], offset + 1, offset + n))

\* the number of rows that (offset, length) names in a batch
NamedRows(batch, offset, length) ==
  IF length < 0 THEN batch.length - offset ELSE length

\* C13: a populate, consume or lookup with (batch, offset, length), offset >= 0
\* and offset+length <= batch.length, acts on the rows [offset, offset+length)
\* only: both groupers return the ids and end in the state of the same call
\* on a batch made of those rows; the id array has `length` elements, without
\* a null bitmap for consume; a negative length names the rows from offset on.
C13_CallActsOnItsRows ==
  [][(out'.op \in {"populate", "consume", "lookup"} /\ out'.offset >= 0) =>
       \A x \in Impls :
         /\ out'.main[x].status = "OK"
         /\ SameAsRows(CallOf(Main, x,
                              OnlyRows(out'.batch, out'.offset,
                                       NamedRows(out'.batch, out'.offset, out'.length)),
                              0, 0 - 1, ModeOf(out'.op)),
                       out'.main[x], Main'[x])
         /\ out'.op # "populate" =>
              Len(out'.main[x].ids) = NamedRows(out'.batch, out'.offset, out'.length)
         /\ out'.op = "consume" => out'.main[x].valid = <<>>]_vars

\* a consume of the rows from offset 1 on has returned one id per row named,
\* on groupers that had the key of row 0 stored
C13_Witness ==
  /\ HasReturned("consume")
  /\ out.offset = 1 /\ out.length < 0
  /\ out.batch.length = MaxLen
  /\ Row(out.batch, 1) \in Range(hist.order)
  /\ Row(out.batch, 1) # Row(out.batch, 2)
  /\ \A x \in Impls :
       /\ Len(out.main[x].ids) = MaxLen - 1
       /\ out.main[x].ids[1] = 1

\* the lengths of the maximal runs of equal keys of a stream of rows
FirstRun(stream) ==
  CHOOSE n \in 1..Len(stream) :
    /\ \A i \in 1..n : stream[i] = stream[1]
    /\ n = Len(stream) \/ stream[n + 1] # stream[1]

RECURSIVE MaximalRuns(_)
MaximalRuns(stream) ==
  IF stream = <<>> THEN <<>>
  ELSE <<FirstRun(stream)>>
         \o MaximalRuns(SubSeq(stream, FirstRun(stream) + 1, Len(stream)))

\* the last call was a GetSegments that returned segments
GotSegments == sout.op = "segments" /\ sout.status = "OK"

\* the rows of segment k of the last batch, from 1
FirstRow(k) == sout.segments[k].offset + 1
LastRow(k) == sout.segments[k].offset + sout.segments[k].length

\* C14: the segments of a batch are maximal runs of equal keys (the rows of
\* a segment have equal keys, the last row of a segment and the first row of
\* the next differ), and the segments of all batches since the segmenter was
\* made or reset, a first segment joined to the run before it exactly when
\* its extends flag is set, are the maximal runs of equal keys of all the
\* rows; for each of the three segmenters
C14_SegmentsAreMaximalRuns ==
  /\ GotSegments =>
       /\ \A k \in 1..Len(sout.segments) :
            \A i \in FirstRow(k)..LastRow(k) :
              KeyAt(sout.batch, i) = KeyAt(sout.batch, FirstRow(k))
       /\ \A k \in 1..(Len(sout.segments) - 1) :
            KeyAt(sout.batch, LastRow(k)) # KeyAt(sout.batch, FirstRow(k + 1))
  /\ shist.runs = MaximalRuns(shist.stream)

\* a run that began in an earlier batch goes on in the first rows of the
\* last batch and ends inside it, keys with a null
C14_Witness ==
  /\ GotSegments
  /\ sg.variant = "AnyKeys"
  /\ Len(sout.segments) = 2
  /\ sout.segments[1].extends
  /\ Len(shist.stream) > sout.batch.length + 1
  /\ shist.stream[Len(shist.stream) - sout.batch.length] = <<Null, Null>>
  /\ Len(shist.runs) = 3

\* the number of rows fed before the last batch, since the segmenter was
\* made or reset
RowsBefore == Len(shist.stream) - sout.batch.length

\* C15: the first segment of a non-empty batch has its extends flag set
\* exactly when no row was fed before the batch since the segmenter was made
\* or reset, or the key of the last row fed before it (empty batches feed
\* none) equals the key of the batch's first row; no other segment of a
\* batch has the flag set
C15_ExtendsIffSameKeyAsLastRow ==
  (GotSegments /\ sout.batch.length > 0) =>
    /\ sout.segments[1].extends
         <=> (RowsBefore = 0 \/ shist.stream[RowsBefore] = KeyAt(sout.batch, 1))
    /\ \A k \in 2..Len(sout.segments) : ~sout.segments[k].extends

\* the simple segmenter was fed rows, then an empty batch, then a batch that
\* begins with another key than the last row and holds two segments
C15_Witness ==
  /\ GotSegments
  /\ sg.variant = "SimpleKey"
  /\ shist.after_empty
  /\ RowsBefore > 0
  /\ Len(sout.segments) = 2
  /\ ~sout.segments[1].extends
  /\ shist.stream[RowsBefore] # KeyAt(sout.batch, 1)

\* C16: the segments of a non-empty batch tile it in row order: the first
\* begins at row 0, each next one begins where the one before it ends, each
\* holds at least one row, the last ends at batch.length; is_open_end is set
\* on the last segment only; an empty batch has no segment
C16_SegmentsTileTheBatch ==
  GotSegments =>
    IF sout.batch.length = 0 THEN sout.segments = <<>>
    ELSE /\ Len(sout.segments) >= 1
         /\ sout.segments[1].offset = 0
         /\ \A k \in 1..Len(sout.segments) :
              /\ sout.segments[k].length >= 1
              /\ sout.segments[k].is_open_end <=> k = Len(sout.segments)
              /\ IF k < Len(sout.segments)
                   THEN sout.segments[k + 1].offset
                          = sout.segments[k].offset + sout.segments[k].length
                   ELSE sout.segments[k].offset + sout.segments[k].length
                          = sout.batch.length

\* a batch of MaxLen rows, each a segment of its own, given to the general
\* segmenter
C16_Witness ==
  /\ GotSegments
  /\ sg.variant = "AnyKeys"
  /\ sout.batch.length = MaxLen
  /\ Len(sout.segments) = MaxLen
  /\ ~sout.segments[1].is_open_end
  /\ sout.segments[MaxLen].is_open_end

\* C17: a segmenter that was reset returns, for every batch of every stream
\* that follows, the segments that a segmenter made anew returns for it; the
\* first segment of the first non-empty batch after the reset has its extends
\* flag set
C17_ResetSegmenterLikeNew ==
  (GotSegments /\ shist.resets > 0) =>
    /\ sout.segments = sout.fresh
    /\ (sout.batch.length > 0 /\ RowsBefore = 0) => sout.segments[1].extends

\* the simple segmenter had saved a key, was reset, and was then given a
\* first batch that begins with another key
C17_Witness ==
  /\ GotSegments
  /\ shist.resets > 0
  /\ sg.variant = "SimpleKey"
  /\ sout.batch.length > 0
  /\ RowsBefore = 0
  /\ sout.saved = <<MaxVal>>
  /\ KeyAt(sout.batch, 1) = <<0>>
  /\ sout.segments[1].extends

\* C18: the segmenter made for no keys returns for a non-empty batch of no
\* columns, wherever it comes in the stream, the one segment of all its rows,
\* open-ended and extending; it returns no segment for an empty batch
C18_NoKeysOneSegment ==
  (GotSegments /\ sg.variant = "NoKeys") =>
    sout.segments =
      IF sout.batch.length = 0 THEN <<>>
      ELSE <<Segment(0, sout.batch.length, TRUE, TRUE)>>

\* a batch of MaxLen rows that is not the first of its stream
C18_Witness ==
  /\ GotSegments
  /\ sg.variant = "NoKeys"
  /\ sout.batch.values = <<>>
  /\ sout.batch.length = MaxLen
  /\ RowsBefore > 0
  /\ Len(sout.segments) = 1

\* MakeGroupings has returned; its ids hold no null and are all below
\* num_groups
Grouped == mg.op = "return"

ValidIds == \A i \in 1..Len(mg.ids) : mg.ids[i] # Null /\ mg.ids[i] < mg.num_groups

\* the positions, from 0, of the ids of group g
PositionsOf(g) == {i \in 0..(Len(mg.ids) - 1) : mg.ids[i + 1] = g}

\* the buffer that holds the sequence seq
Buffer(seq) == [i \in 0..(Len(seq) - 1) |-> seq[i + 1]]

\* C19: for ids without nulls that are all below num_groups, MakeGroupings
\* returns offsets[0..num_groups] with offsets[0] = 0, offsets[g+1] -
\* offsets[g] the number of positions of group g and offsets[num_groups] = n,
\* and a permutation of 0..n-1 that lists between offsets[g] and offsets[g+1]
\* the positions of group g in ascending order
C19_GroupingsListPositionsByGroup ==
  (Grouped /\ ValidIds) =>
    /\ mg.res.status = "OK"
    /\ mg.res.length = mg.num_groups
    /\ DOMAIN mg.res.offsets = 0..mg.num_groups
    /\ mg.res.offsets[0] = 0
    /\ mg.res.offsets[mg.num_groups] = Len(mg.ids)
    /\ DOMAIN mg.res.sort_indices = 0..(Len(mg.ids) - 1)
    /\ {mg.res.sort_indices[j] : j \in DOMAIN mg.res.sort_indices}
         = 0..(Len(mg.ids) - 1)
    /\ \A g \in 0..(mg.num_groups - 1) :
         /\ mg.res.offsets[g + 1] - mg.res.offsets[g] = Cardinality(PositionsOf(g))
         /\ {mg.res.sort_indices[j] : j \in mg.res.offsets[g]..(mg.res.offsets[g + 1] - 1)}
              = PositionsOf(g)
         /\ \A j \in mg.res.offsets[g]..(mg.res.offsets[g + 1] - 2) :
              mg.res.sort_indices[j] < mg.res.sort_indices[j + 1]

\* ids = [0, 2, 0, 1, 2, 0] with num_groups = 3 give offsets [0, 3, 4, 6] and
\* the permutation [0, 2, 5, 3, 1, 4]
C19_Witness ==
  /\ Grouped
  /\ mg.ids = <<0, 2, 0, 1, 2, 0>>
  /\ mg.num_groups = 3
  /\ mg.res.status = "OK"
  /\ mg.res.offsets = Buffer(<<0, 3, 4, 6>>)
  /\ mg.res.sort_indices = Buffer(<<0, 2, 5, 3, 1, 4>>)

\* C20: MakeGroupings returns an error and no groupings whenever an id is
\* null or is not below num_groups
C20_InvalidIdsAreRejected ==
  (Grouped /\ ~ValidIds) => mg.res = NoListArray("Invalid")

\* ApplyGroupings has returned
Applied == mg.op = "applied"

\* C21: for ids without nulls that are all below num_groups and an array of
\* as many values, ApplyGroupings on the groupings of MakeGroupings returns
\* num_groups lists with the offsets of the groupings, and list g holds the
\* values at the positions of group g in the order of the array
C21_ApplyGroupingsListsValuesByGroup ==
  (Applied /\ ValidIds) =>
    /\ mg.applied.status = "OK"
    /\ mg.applied.length = mg.num_groups
    /\ mg.applied.offsets = mg.res.offsets
    /\ DOMAIN mg.applied.values = 0..(Len(mg.ids) - 1)
    /\ \A g \in 0..(mg.num_groups - 1) :
         /\ mg.applied.offsets[g + 1] - mg.applied.offsets[g]
              = Cardinality(PositionsOf(g))
         /\ \A p \in PositionsOf(g) :
              mg.applied.values[mg.applied.offsets[g]
                                  + Cardinality({q \in PositionsOf(g) : q < p})]
                = mg.array[p]

\* ids = [0, 2, 0, 1, 2, 0] with num_groups = 3 and the values
\* [0, 1, 1, 0, 0, 1] give the lists [0, 1, 1], [0], [1, 0]
C21_Witness ==
  /\ Applied
  /\ mg.ids = <<0, 2, 0, 1, 2, 0>>
  /\ mg.num_groups = 3
  /\ mg.array = Buffer(<<0, 1, 1, 0, 0, 1>>)
  /\ mg.applied.offsets = Buffer(<<0, 3, 4, 6>>)
  /\ mg.applied.values = Buffer(<<0, 1, 1, 0, 1, 0>>)

\* C22: a populate, consume or lookup with a negative offset returns
\* Invalid and leaves each grouper as it was, and with it num_groups(), the
\* id of every stored key and uniques()
C22_NegativeOffsetIsInvalid ==
  [][(out'.op \in {"populate", "consume", "lookup"} /\ out'.offset < 0) =>
       \A x \in Impls :
         /\ out'.main[x] = CallResult(Result("Invalid", <<>>, <<>>))
         /\ Main'[x] = Main[x]
         /\ NumGroupsOf(Main', x) = NumGroupsOf(Main, x)]_vars

\* a consume with a negative offset, of a batch with a key that is not
\* stored, on groupers that hold a group
C22_Witness ==
  /\ out.op = "consume"
  /\ out.offset < 0
  /\ out.main["fast"].status = "Invalid"
  /\ out.main["impl"].status = "Invalid"
  /\ NumGroupsOf(Main, "fast") = 1
  /\ \E i \in 1..out.batch.length : Row(out.batch, i) \notin Range(hist.order)

\* the batch has as many columns as there are key types, each of the type of
\* its key
MatchesKeys(batch, key_types) ==
  /\ Len(batch.values) = Len(key_types)
  /\ \A i \in 1..Len(key_types) : batch.types[i] = key_types[i]

\* C23: GetSegments, of each segmenter, on a batch whose number of columns is
\* not the number of key types or that has a column of another type than its
\* key returns Invalid with no segment, and leaves the segmenter as it was,
\* so that it returns for every batch what it returned without that call
C23_MismatchedBatchIsInvalid ==
  [][(sout'.op = "segments" /\ ~MatchesKeys(sout'.batch, sg.key_types_)) =>
       /\ sout'.status = "Invalid"
       /\ sout'.segments = <<>>
       /\ sg' = sg]_vars

\* the simple segmenter has saved the key MaxVal and is given a row of key 0
\* in a column of another type
C23_Witness ==
  /\ sout.op = "segments"
  /\ sout.status = "Invalid"
  /\ sg.variant = "SimpleKey"
  /\ sg.extend_was_called_
  /\ sg.save_key_data_ = <<MaxVal>>
  /\ Len(sout.batch.values) = 1
  /\ sout.batch.types # sg.key_types_
  /\ sout.batch.length = 1

\* C24: a populate, consume or lookup with a batch whose columns are not
\* those of the key schema returns an error and leaves the groups of each
\* grouper as they were
C24_MismatchedBatchIsRejected ==
  [][(out'.op \in {"populate", "consume", "lookup"}
        /\ Len(out'.batch.values) # NumCols) =>
       \A x \in Impls :
         /\ out'.main[x].status # "OK"
         /\ Main'[x] = Main[x]]_vars

\* the last call went as far as the dictionaries of its batch
WentThroughBatch ==
  /\ out.op \in {"populate", "consume", "lookup"}
  /\ out.main["fast"].status # "Invalid"

\* C25: on the fast path the dictionary of a dictionary key is the one of the
\* first batch the grouper went through and is not changed by any call or
\* reset after that; a populate, consume or lookup of a batch with another
\* dictionary returns an error, adds no group, and leaves num_groups() and
\* uniques() as they were
C25_DictionaryIsBoundOnce ==
  [][/\ hist'.first # NoDictionary => fast'.dictionaries_[1] = hist'.first
     /\ fast.dictionaries_[1] # NoDictionary
          => fast'.dictionaries_[1] = fast.dictionaries_[1]
     /\ (WentThroughBatch' /\ fast.dictionaries_[1] = NoDictionary)
          => /\ fast'.dictionaries_[1] = out'.batch.dictionaries[1]
             /\ hist'.first = out'.batch.dictionaries[1]
     /\ (WentThroughBatch' /\ fast.dictionaries_[1] # NoDictionary
           /\ out'.batch.dictionaries[1] # fast.dictionaries_[1])
          => /\ out'.main["fast"] = CallResult(Result("NotImplemented", <<>>, <<>>))
             /\ fast' = fast
             /\ FastNumGroups(fast') = FastNumGroups(fast)
             /\ FastGetUniques(fast') = FastGetUniques(fast)]_vars

\* a grouper that took its dictionary from its first batch and was reset
\* after it is given a batch with another dictionary and a key it has not
C25_Witness ==
  /\ WentThroughBatch
  /\ out.op = "consume"
  /\ out.main["fast"].status = "NotImplemented"
  /\ hist.resets > 0
  /\ FastNumGroups(fast) = 1
  /\ fast.dictionaries_[1] = hist.first
  /\ out.batch.dictionaries[1] # hist.first
  /\ out.batch.length > 0
  /\ \A i \in 1..out.batch.length : Row(out.batch, i)[1] # DecodeImage(fast.rows_[1], 1)

\* the batch in which each scalar is replaced by an array of batch.length
\* copies of its value
ScalarsAsArrays(batch) ==
  [length |-> batch.length,
   values |-> [c \in 1..Len(batch.values) |->
                 IF c \in batch.scalars
                   THEN [i \in 1..batch.length |-> batch.values[c][1]]
                   ELSE batch.values[c]],
   dictionaries |-> batch.dictionaries]

\* C26: a populate, consume or lookup on the fast path of a batch that has
\* scalar columns changes the grouper and returns the ids as the same call
\* does on the batch in which each scalar is an array of batch.length copies
\* of its value and the array columns are as they were
C26_ScalarsAreBroadcast ==
  [][(out'.op \in {"populate", "consume", "lookup"}
        /\ \E c \in 1..Len(out'.batch.values) : IsScalar(out'.batch, c)) =>
       LET Same(r) == fast' = r.f /\ out'.main["fast"] = CallResult(r.res)
       IN Same(FastConsumeImpl(fast, ScalarsAsArrays(out'.batch), out'.offset,
                               out'.length,
                               IF out'.op = "populate" THEN "kPopulate"
                               ELSE IF out'.op = "consume" THEN "kConsume"
                               ELSE "kLookup"))]_vars

\* a consume of the rows from the second on of a batch whose first column is
\* a scalar and whose second column is an array, by a grouper that has another
\* key: the one row is given the id of a new group
C26_Witness ==
  /\ out.op = "consume"
  /\ out.main["fast"].status = "OK"
  /\ IsScalar(out.batch, 1)
  /\ ~IsScalar(out.batch, 2)
  /\ out.offset = 1
  /\ out.main["fast"].ids = <<1>>
  /\ FastNumGroups(fast) = 2

\* C27: the sentinel kNoGroupId is never returned as a group id: every id
\* returned by consume and every id marked valid by lookup is below
\* num_groups(); lookup reports a key that is not stored by a cleared validity
\* bit with the stored value 0
C27_SentinelIsNeverReturned ==
  \A x \in Impls :
    (out.op \in {"consume", "lookup"} /\ out.main[x].status = "OK") =>
      \A i \in 1..Len(out.main[x].ids) :
        /\ out.main[x].ids[i] # kNoGroupId
        /\ (out.op = "consume" \/ out.main[x].valid[i]) =>
             out.main[x].ids[i] \in 0..(NumGroupsOf(Main, x) - 1)
        /\ (out.op = "lookup" /\ ~out.main[x].valid[i]) =>
             /\ out.main[x].ids[i] = 0
             /\ OutRows[i] \notin Range(hist.order)

\* a lookup of a stored key and of a key that is not stored, on groupers that
\* hold two groups: the first row is valid with the id 1, the second is not
\* valid and has the value 0
C27_Witness ==
  /\ HasReturned("lookup")
  /\ Len(OutRows) = 2
  /\ \A x \in Impls :
       /\ NumGroupsOf(Main, x) = 2
       /\ out.main[x].valid = <<TRUE, FALSE>>
       /\ out.main[x].ids = <<1, 0>>

\* a key tuple as the grouper stores it: a key column that the batch has not
\* is null
StoredKey(key) == [c \in 1..NumCols |-> IF c <= Len(key) THEN key[c] ELSE Null]

\* the id that a grouper has stored for the key of row i of a segmenter's
\* batch
StoredIdOf(grouper, batch, i) ==
  IdOf([fast |-> grouper], "fast", StoredKey(KeyAt(batch, i)))

\* the rows of uniques() on a grouper
UniqueRows(grouper) ==
  LET Rows(u) == [i \in 1..u.length |-> [c \in 1..NumCols |-> u.values[c][i]]]
  IN Rows(FastGetUniques(grouper))

\* C28: a GetSegments of the general segmenter on a non-empty batch maps the
\* first row on the grouper as the batch before left it, and only when an id
\* is saved, then resets the grouper, then consumes the batch: the first
\* segment extends exactly when no id was saved or the first row had the
\* saved id there; after the call the grouper holds exactly the distinct keys
\* of the batch, the first row has the id 0, and the saved id is the id of
\* the last row and is below num_groups(); the saved id is the sentinel
\* exactly when no row was fed since the segmenter was made or reset
C28_GeneralSegmenterProbesResetsConsumes ==
  [][/\ sg'.variant = "AnyKeys" =>
          (sg'.save_group_id_ = kNoGroupId <=> shist'.stream = <<>>)
     /\ (sg.variant = "AnyKeys" /\ sout'.op = "segments" /\ sout'.status = "OK"
           /\ sout'.batch.length > 0) =>
          LET Holds(n) ==
                /\ sout'.segments[1].extends
                     <=> (sg.save_group_id_ = kNoGroupId
                            \/ StoredIdOf(sg.grouper_, sout'.batch, 1)
                                 = sg.save_group_id_)
                /\ UniqueRows(sg'.grouper_)
                     = AppendNew(<<>>, [i \in 1..n |-> StoredKey(KeyAt(sout'.batch, i))])
                /\ FastNumGroups(sg'.grouper_)
                     = Cardinality(Range(KeysOf(sout'.batch)))
                /\ StoredIdOf(sg'.grouper_, sout'.batch, 1) = 0
                /\ sg'.save_group_id_ = StoredIdOf(sg'.grouper_, sout'.batch, n)
                /\ sg'.save_group_id_ < FastNumGroups(sg'.grouper_)
          IN Holds(sout'.batch.length)]_vars

\* the general segmenter was fed a batch of two keys and then a batch of two
\* rows, the first with the key of the last row before it and the second
\* with a key that only the first batch began with: the grouper holds the
\* two keys of the second batch, and the saved id is 1
C28_Witness ==
  /\ sg.variant = "AnyKeys"
  /\ sout.op = "segments" /\ sout.status = "OK"
  /\ sout.batch.length = 2
  /\ Len(shist.stream) = 4
  /\ shist.stream[1] = shist.stream[4]
  /\ shist.stream[2] = shist.stream[3]
  /\ shist.stream[1] # shist.stream[2]
  /\ sout.segments[1].extends
  /\ Len(sout.segments) = 2
  /\ FastNumGroups(sg.grouper_) = 2
  /\ sg.save_group_id_ = 1

\* C29: on any stream of batches of one fixed-width key column without nulls,
\* with Reset calls and empty batches anywhere, the simple segmenter and the
\* general segmenter made for the same key return the same segments for
\* every batch: the same offsets, lengths, is_open_end and extends flags
C29_SimpleAndGeneralSegmentersAgree ==
  (sg.variant = "SimpleKey" /\ sout.op = "segments") =>
    /\ sout.general.status = sout.status
    /\ sout.general.segments = sout.segments

\* after a reset, a batch and an empty batch, both segmenters cut a batch
\* into two segments of which the first extends the rows before it
C29_Witness ==
  /\ sg.variant = "SimpleKey" /\ sout.op = "segments" /\ sout.status = "OK"
  /\ shist.general.variant = "AnyKeys"
  /\ shist.general.save_group_id_ = 1
  /\ shist.resets > 0
  /\ shist.after_empty
  /\ Len(shist.stream) > sout.batch.length
  /\ Len(sout.general.segments) = 2
  /\ sout.general.segments[1].extends
  /\ sout.general.segments = sout.segments

C31_CallsTerminate ==
  /\ [][/\ (sout.pc = "simple" /\ sout'.pc = "simple" /\ sout' # sout) =>
             /\ sout'.offset >= sout.offset + 1
             /\ sout'.offset <= sout.batch.length
        /\ (sout.pc = "general" /\ sout'.pc = "general" /\ sout' # sout) =>
             /\ sout'.cursor = sout.cursor + 1
             /\ sout'.cursor <= sout.batch.length
        /\ (out.pc = "loop" /\ out'.pc = "loop" /\ out' # out) =>
             /\ out'.start_row - out.start_row \in 1..minibatch_size_max_
             /\ out'.start_row <= out.batch.length]_vars
  /\ [](/\ Len(sout.segments) <= sout.batch.length
        /\ sout.iterations <= sout.batch.length
        /\ out.iterations <= out.batch.length)
  /\ (sout.pc \in {"simple", "general"}) ~> (sout.pc = "done")
  /\ (out.pc = "loop") ~> (out.pc = "done")

\* a consume of a batch longer than the mini-batch size has ended after two
\* iterations of the mini-batch loop
C31_Witness ==
  /\ out.pc = "done"
  /\ out.mode = "kConsume"
  /\ out.batch.length > minibatch_size_min_
  /\ out.start_row = out.batch.length
  /\ out.iterations = 2
  /\ Len(out.res.ids) = out.batch.length

====
